---------------------------- MODULE Spec2Model ----------------------------
(***************************************************************************)
(* A model of the Sanctifier static-analysis engine (tooling/sanctifier-   *)
(* core) and of the example contracts it ships with.                       *)
(*                                                                         *)
(* Source text is modelled by its syntax: a source is a sequence of        *)
(* top-level fragments, each either an item (a syntax tree) or a fragment  *)
(* that does not parse.  A syntax-tree node is a record                    *)
(*     [k |-> kind, id |-> identifier, kids |-> sequence of nodes]         *)
(* (function nodes carry vis and ret as well).  Identifiers come from a    *)
(* finite vocabulary; the string tests of the code (ends_with, contains)   *)
(* are tables over that vocabulary.                                        *)
(***************************************************************************)
EXTENDS Integers, Sequences, FiniteSets, TLC

VARIABLES
    \* ---- scan_reentrancy (reentrancy.rs) ----
    re_source,        \* the source text handed to scan_reentrancy
    re_pc,            \* "parse" | "visit" | "done"
    re_todo,          \* the visitor callbacks syn::visit still has to make
    rv_issues,        \* ReentrancyVisitor.issues
    rv_current_fn,    \* ReentrancyVisitor.current_fn  (Option<String>)
    rv_saw_cross_call,\* ReentrancyVisitor.saw_cross_call
    re_frames,        \* locals (prev_fn, prev_cross) of the active visit_impl_item_fn calls
    re_entered,       \* TRUE right after visit_impl_item_fn has set up a function
    re_result,        \* the Vec scan_reentrancy returned
    \* ---- the detectors run one after the other on a source ----
    su_source,        \* the source text every detector is handed
    su_config,        \* ledger_limit, approaching_threshold and strict_mode in use
    su_overflow_checks, \* whether the build panics on integer overflow
    su_pc,            \* the detector to run next, "end", "done" or "aborted"
    su_violations,    \* what run_all's flat_map has collected so far
    su_out,           \* the lists returned in this pass
    su_first,         \* the lists returned in the first pass, once it is over
    su_run,           \* 1 in the first pass over the source, 2 in the second
    \* ---- a RuleRegistry and the calls made on it ----
    rg_rules,         \* RuleRegistry.rules, each rule with its name and its fields
    rg_source,        \* the source text the calls are handed
    rg_pc,            \* "ready", or "aborted" after a panic of a rule
    rg_registered,    \* the number of register calls made by the caller
    rg_all,           \* what run_all returned on the rules as they are now
    rg_prev,          \* what run_all last returned before the rules changed
    rg_by_name,       \* the name run_by_name was last given, and what it returned
    rg_names,         \* what available_rules returned on the rules as they are now
    \* ---- the calls made on the symbolic prover ----
    sm_pc,            \* "ready" while the prover is in use
    sm_calls,         \* the calls made so far: what the solver answered, what came back
    \* ---- one run of the analyze command ----
    an_pc,            \* "start", "scanned" or "exited"
    an_args,          \* the output format asked for; whether the path is a Soroban project
    an_found,         \* the lists of findings gathered from the files
    an_summary,       \* has_critical and has_high, once computed
    an_exit,          \* the exit status of the process, once it has ended
    \* ---- VulnDatabase.scan over one source text ----
    vd_pc,            \* "start" or "scanned"
    vd_db,            \* the database: its entries in order, each an id and a pattern
    vd_source,        \* the source text, a sequence of characters
    vd_matches,       \* the VulnMatch list returned
    vd_spans,         \* for each match returned, where the regex matched (start, end)
    \* ---- GasTier::from_instructions ----
    gs_pc,            \* "ready" while calls are made
    gs_calls,         \* the calls made so far: the count given and the tier returned
    \* ---- my-contract: a ContractState and the calls made on it ----
    cb_pc,            \* "ready" while calls are made
    cb_state,         \* the ContractState: admin, shutdown, balance (a u64), data
    cb_log,           \* the calls made so far: operation, caller, argument, state before, result
    \* ---- reentrancy-guard: the guard entry of instance storage and the calls made ----
    gd_pc,            \* "ready", or "panicked" once an enter has panicked
    gd_storage,       \* instance storage under GUARD_KEY: None or Some(u32)
    gd_log,           \* the calls made so far: operation, status found, outcome
    \* ---- kani-poc TokenContract: instance storage and the calls made ----
    tk_pc,            \* "ready" while calls are made
    tk_storage,       \* instance storage: what is under "init" and under "admin"
    tk_log,           \* the calls made so far: entry point and outcome
    \* ---- RuntimeGuardWrapper: its storage and the calls executed ----
    rw_pc,            \* "run" during the opening run of calls, then "ready"
    rw_planned,       \* the length of the opening run
    rw_storage,       \* the entries of instance and persistent storage the wrapper keeps
    rw_executed,      \* the execute_guarded calls that returned Ok since the last init, in call order
    rw_made,          \* the number of calls made in this run
    rw_last           \* the result of the last call

reVars == <<re_source, re_pc, re_todo, rv_issues, rv_current_fn,
            rv_saw_cross_call, re_frames, re_entered, re_result>>

suVars == <<su_source, su_config, su_overflow_checks, su_pc, su_violations, su_out,
            su_first, su_run>>

rgVars == <<rg_rules, rg_source, rg_pc, rg_registered, rg_all, rg_prev,
            rg_by_name, rg_names>>

smVars == <<sm_pc, sm_calls>>

anVars == <<an_pc, an_args, an_found, an_summary, an_exit>>

vdVars == <<vd_pc, vd_db, vd_source, vd_matches, vd_spans>>

gsVars == <<gs_pc, gs_calls>>

cbVars == <<cb_pc, cb_state, cb_log>>

gdVars == <<gd_pc, gd_storage, gd_log>>

tkVars == <<tk_pc, tk_storage, tk_log>>

rwVars == <<rw_pc, rw_planned, rw_storage, rw_executed, rw_made, rw_last>>

vars == <<reVars, suVars, rgVars, smVars, anVars, vdVars, gsVars, cbVars, gdVars, tkVars, rwVars>>

\* what the steps of one part of the model leave alone
notRe == <<suVars, rgVars, smVars, anVars, vdVars, gsVars, cbVars, gdVars, tkVars, rwVars>>
notSu == <<reVars, rgVars, smVars, anVars, vdVars, gsVars, cbVars, gdVars, tkVars, rwVars>>
notRg == <<reVars, suVars, smVars, anVars, vdVars, gsVars, cbVars, gdVars, tkVars, rwVars>>
notSm == <<reVars, suVars, rgVars, anVars, vdVars, gsVars, cbVars, gdVars, tkVars, rwVars>>
notAn == <<reVars, suVars, rgVars, smVars, vdVars, gsVars, cbVars, gdVars, tkVars, rwVars>>
notVd == <<reVars, suVars, rgVars, smVars, anVars, gsVars, cbVars, gdVars, tkVars, rwVars>>
notGs == <<reVars, suVars, rgVars, smVars, anVars, vdVars, cbVars, gdVars, tkVars, rwVars>>
notCb == <<reVars, suVars, rgVars, smVars, anVars, vdVars, gsVars, gdVars, tkVars, rwVars>>
notGd == <<reVars, suVars, rgVars, smVars, anVars, vdVars, gsVars, cbVars, tkVars, rwVars>>
notTk == <<reVars, suVars, rgVars, smVars, anVars, vdVars, gsVars, cbVars, gdVars, rwVars>>
notRw == <<reVars, suVars, rgVars, smVars, anVars, vdVars, gsVars, cbVars, gdVars, tkVars>>

\* RuntimeGuardWrapper: its storage and the calls executed: not in use.
RwIdle ==
    /\ rw_pc = "idle"
    /\ rw_planned = 0
    /\ rw_storage = <<>>
    /\ rw_executed = <<>>
    /\ rw_made = 0
    /\ rw_last = <<>>

\* kani-poc TokenContract: instance storage and the calls made: not in use.
TkIdle ==
    /\ tk_pc = "idle"
    /\ tk_storage = <<>>
    /\ tk_log = <<>>

\* reentrancy-guard: the guard entry of instance storage and the calls made: not in use.
GdIdle ==
    /\ gd_pc = "idle"
    /\ gd_storage = <<>>
    /\ gd_log = <<>>

\* my-contract: a ContractState and the calls made on it: not in use.
CbIdle ==
    /\ cb_pc = "idle"
    /\ cb_state = <<>>
    /\ cb_log = <<>>

\* GasTier::from_instructions: not in use.
GsIdle ==
    /\ gs_pc = "idle"
    /\ gs_calls = <<>>

\* VulnDatabase.scan over one source text: not in use.
VdIdle ==
    /\ vd_pc = "idle"
    /\ vd_db = <<>>
    /\ vd_source = <<>>
    /\ vd_matches = <<>>
    /\ vd_spans = <<>>

\* The detectors of the suite are not running.
SuIdle ==
    /\ su_source = <<>>
    /\ su_config = <<>>
    /\ su_overflow_checks = FALSE
    /\ su_pc = "idle"
    /\ su_violations = <<>>
    /\ su_out = <<>>
    /\ su_first = <<>>
    /\ su_run = 0

\* No registry is in use.
RgIdle ==
    /\ rg_rules = <<>>
    /\ rg_source = <<>>
    /\ rg_pc = "idle"
    /\ rg_registered = 0
    /\ rg_all = <<>>
    /\ rg_prev = <<>>
    /\ rg_by_name = <<>>
    /\ rg_names = <<>>

\* The prover is not in use.
SmIdle == sm_pc = "idle" /\ sm_calls = <<>>

\* The analyze command is not running.
AnIdle ==
    /\ an_pc = "idle"
    /\ an_args = <<>>
    /\ an_found = <<>>
    /\ an_summary = <<>>
    /\ an_exit = <<>>

\* scan_reentrancy is not running step by step.
ReIdle ==
    /\ re_source = <<>>
    /\ re_pc = "idle"
    /\ re_todo = <<>>
    /\ rv_issues = <<>>
    /\ rv_current_fn = <<>>
    /\ rv_saw_cross_call = FALSE
    /\ re_frames = <<>>
    /\ re_entered = FALSE
    /\ re_result = <<>>

---------------------------------------------------------------------------
(* Generic helpers *)

None == <<>>
Some(x) == <<x>>

RECURSIVE SeqSum(_)
SeqSum(s) == IF s = <<>> THEN 0 ELSE Head(s) + SeqSum(Tail(s))

Range(s) == {s[i] : i \in DOMAIN s}

\* All sequences over S of length at most n.
SeqsUpTo(S, n) == UNION {[1..m -> S] : m \in 0..n}

---------------------------------------------------------------------------
(* Syntax trees (the part of syn's Expr / Stmt / Item the detectors read) *)

Node(k, id, kids) == [k |-> k, id |-> id, kids |-> kids]

Path(id)                == Node("Path", id, <<>>)
LitStr(v)               == Node("LitStr", v, <<>>)
LitInt(v)               == Node("LitInt", v, <<>>)
Ref(e)                  == Node("Reference", "", <<e>>)
MethodCall(recv, m, as) == Node("MethodCall", m, <<recv>> \o as)
Call(f, as)             == Node("Call", f, as)
ExprMacro(name)         == Node("Macro", name, <<>>)
Block(stmts)            == Node("Block", "", stmts)
IfElse(c, then, els)    == Node("If", "", <<c, Block(then), els>>)
IfThen(c, then)         == Node("If", "", <<c, Block(then)>>)
Match(e, arms)          == Node("Match", "", <<e>> \o arms)
Loop(stmts)             == Node("Loop", "", <<Block(stmts)>>)
Closure(e)              == Node("Closure", "", <<e>>)
Binary(op, l, r)        == Node("Binary", op, <<l, r>>)
Try(e)                  == Node("Try", "", <<e>>)
Assign(l, r)            == Node("Assign", "", <<l, r>>)
Return(e)               == Node("Return", "", <<e>>)

SExpr(e)                == Node("SExpr", "", <<e>>)
Local(e)                == Node("Local", "", <<e>>)
LocalNoInit             == Node("Local", "", <<>>)
SMacro(name)            == Node("SMacro", name, <<>>)
SItem(item)             == Node("SItem", "", <<item>>)

ImplFn(name, vis, ret, body) ==
    [k |-> "ImplFn", id |-> name, kids |-> body, vis |-> vis, ret |-> ret]
ItemFn(name, vis, ret, body) ==
    [k |-> "ItemFn", id |-> name, kids |-> body, vis |-> vis, ret |-> ret]
ItemImpl(fns)           == Node("Impl", "", fns)
Garbage                 == Node("Garbage", "", <<>>)

\* syn::parse_str::<File>: the whole text parses or none of it does.
Err == [ok |-> FALSE, items |-> <<>>]
Ok(items) == [ok |-> TRUE, items |-> items]
parse_str(source) ==
    IF \E i \in DOMAIN source : source[i].k = "Garbage" THEN Err ELSE Ok(source)

---------------------------------------------------------------------------
(* reentrancy.rs: ReentrancyVisitor and scan_reentrancy *)

\* The identifiers of the model that end in "_client" / start with "invoke".
EndsWithClient(method) == method \in {"token_client", "_client"}
StartsWithInvoke(method) ==
    method \in {"invoke", "invoke_contract", "invoke_transfer"}

is_cross_call(method) ==
    \/ method \in {"invoke_contract", "try_invoke_contract", "call", "try_call"}
    \/ EndsWithClient(method)
    \/ StartsWithInvoke(method)

is_mutation(method) == method \in {"set", "update", "remove"}

ReentrancyIssue(fn_name) ==
    [function_name |-> fn_name,
     issue_type    |-> "CEI violation: storage mutation after cross-contract call",
     location      |-> "fn " \o fn_name]

\* ReentrancyVisitor::new
ReentrancyVisitorNew ==
    [issues |-> <<>>, current_fn |-> None, saw_cross_call |-> FALSE]

\* ReentrancyVisitor::check_method
check_method(v, method) ==
    LET saw == v.saw_cross_call \/ is_cross_call(method)
        flagged ==
            /\ is_mutation(method)
            /\ saw
            /\ v.current_fn # None
            /\ ~ \E i \in DOMAIN v.issues :
                    v.issues[i].function_name = v.current_fn[1]
    IN [v EXCEPT
          !.saw_cross_call = saw,
          !.issues = IF flagged
                     THEN Append(v.issues, ReentrancyIssue(v.current_fn[1]))
                     ELSE v.issues]

\* visit_impl_item_fn without the reset of saw_cross_call.
visit_impl_item_fn_enter_no_reset(v, name) ==
    [v EXCEPT !.current_fn = Some(name)]

\* visit_impl_item_fn up to the recursive visit: the function becomes the
\* current one and the flag is reset.
visit_impl_item_fn_enter(v, name) ==
    [v EXCEPT !.current_fn = Some(name), !.saw_cross_call = FALSE]

\* visit_impl_item_fn after the recursive visit: the saved values come back.
visit_impl_item_fn_exit(v, frame) ==
    [v EXCEPT !.current_fn = frame.prev_fn, !.saw_cross_call = frame.prev_cross]

\* The callbacks syn::visit makes on a ReentrancyVisitor while it walks a
\* node, in order (pre-order: a method call before its receiver and its
\* arguments).  Macro tokens are not walked.
RECURSIVE ReEvents(_), ReEventsSeq(_)
ReEvents(n) ==
    CASE n.k = "ImplFn" ->
            <<[e |-> "enter", id |-> n.id]>> \o ReEventsSeq(n.kids)
                \o <<[e |-> "exit", id |-> n.id]>>
      [] n.k = "MethodCall" ->
            <<[e |-> "method", id |-> n.id]>> \o ReEventsSeq(n.kids)
      [] n.k = "Call" ->
            <<[e |-> "call", id |-> n.id]>> \o ReEventsSeq(n.kids)
      [] n.k \in {"Macro", "SMacro", "Path", "LitStr", "LitInt", "Garbage"} -> <<>>
      [] OTHER -> ReEventsSeq(n.kids)
ReEventsSeq(ns) ==
    IF ns = <<>> THEN <<>> ELSE ReEvents(Head(ns)) \o ReEventsSeq(Tail(ns))

\* scan_reentrancy's loop: only the impl blocks among the items are visited.
RECURSIVE ReFileEvents(_)
ReFileEvents(items) ==
    IF items = <<>> THEN <<>>
    ELSE (IF Head(items).k = "Impl" THEN ReEvents(Head(items)) ELSE <<>>)
            \o ReFileEvents(Tail(items))

Visitor == [issues |-> rv_issues, current_fn |-> rv_current_fn,
            saw_cross_call |-> rv_saw_cross_call]

SetVisitor(v) ==
    /\ rv_issues' = v.issues
    /\ rv_current_fn' = v.current_fn
    /\ rv_saw_cross_call' = v.saw_cross_call

\* scan_reentrancy, lines 108-114: parse, or return an empty Vec.
ScanParse ==
    /\ re_pc = "parse"
    /\ LET file == parse_str(re_source) IN
         IF file.ok
         THEN /\ re_pc' = "visit"
              /\ re_todo' = ReFileEvents(file.items)
              /\ re_result' = re_result
         ELSE /\ re_pc' = "done"
              /\ re_todo' = <<>>
              /\ re_result' = <<>>
    /\ SetVisitor(ReentrancyVisitorNew)
    /\ re_entered' = FALSE
    /\ UNCHANGED <<re_source, re_frames>>
    /\ UNCHANGED notRe

VisitImplItemFnEnter ==
    /\ re_pc = "visit" /\ re_todo # <<>> /\ Head(re_todo).e = "enter"
    /\ re_frames' = <<[prev_fn |-> rv_current_fn,
                       prev_cross |-> rv_saw_cross_call]>> \o re_frames
    /\ SetVisitor(visit_impl_item_fn_enter(Visitor, Head(re_todo).id))
    /\ re_todo' = Tail(re_todo)
    /\ re_entered' = TRUE
    /\ UNCHANGED <<re_source, re_pc, re_result>>
    /\ UNCHANGED notRe

VisitExprMethodCall ==
    /\ re_pc = "visit" /\ re_todo # <<>> /\ Head(re_todo).e = "method"
    /\ SetVisitor(check_method(Visitor, Head(re_todo).id))
    /\ re_todo' = Tail(re_todo)
    /\ re_entered' = FALSE
    /\ UNCHANGED <<re_source, re_pc, re_frames, re_result>>
    /\ UNCHANGED notRe

VisitExprCall ==
    /\ re_pc = "visit" /\ re_todo # <<>> /\ Head(re_todo).e = "call"
    /\ SetVisitor(check_method(Visitor, Head(re_todo).id))
    /\ re_todo' = Tail(re_todo)
    /\ re_entered' = FALSE
    /\ UNCHANGED <<re_source, re_pc, re_frames, re_result>>
    /\ UNCHANGED notRe

VisitImplItemFnExit ==
    /\ re_pc = "visit" /\ re_todo # <<>> /\ Head(re_todo).e = "exit"
    /\ SetVisitor(visit_impl_item_fn_exit(Visitor, Head(re_frames)))
    /\ re_frames' = Tail(re_frames)
    /\ re_todo' = Tail(re_todo)
    /\ re_entered' = FALSE
    /\ UNCHANGED <<re_source, re_pc, re_result>>
    /\ UNCHANGED notRe

\* scan_reentrancy, line 120: the visitor's issues are the result.
ScanReturn ==
    /\ re_pc = "visit" /\ re_todo = <<>>
    /\ re_pc' = "done"
    /\ re_result' = rv_issues
    /\ re_entered' = FALSE
    /\ UNCHANGED <<re_source, re_todo, rv_issues, rv_current_fn,
                   rv_saw_cross_call, re_frames>>
    /\ UNCHANGED notRe

\* scan_reentrancy as a function of its source.
RECURSIVE ReRun(_, _, _)
ReRun(v, frames, events) ==
    IF events = <<>> THEN v.issues
    ELSE LET ev == Head(events) IN
         CASE ev.e = "enter" ->
                ReRun(visit_impl_item_fn_enter(v, ev.id),
                      <<[prev_fn |-> v.current_fn,
                         prev_cross |-> v.saw_cross_call]>> \o frames,
                      Tail(events))
           [] ev.e = "exit" ->
                ReRun(visit_impl_item_fn_exit(v, Head(frames)), Tail(frames),
                      Tail(events))
           [] OTHER -> ReRun(check_method(v, ev.id), frames, Tail(events))

scan_reentrancy(source) ==
    LET file == parse_str(source) IN
    IF ~file.ok THEN <<>>
    ELSE ReRun(ReentrancyVisitorNew, <<>>, ReFileEvents(file.items))

---------------------------------------------------------------------------
(* Sources scan_reentrancy is run on *)

ReMaxStmts == 3

EnvStorage == MethodCall(MethodCall(Path("env"), "storage", <<>>), "persistent", <<>>)

\* let client = TokenClient::new(&env, &to);
StmtClientNew == Local(Call("new", <<Ref(Path("env")), Ref(Path("to"))>>))
\* client.transfer(&env.current_contract_address(), &to, &amount);
StmtClientTransfer ==
    SExpr(MethodCall(Path("client"), "transfer",
            <<Ref(MethodCall(Path("env"), "current_contract_address", <<>>)),
              Ref(Path("to")), Ref(Path("amount"))>>))
\* env.storage().persistent().set(&key, &amount);
StmtStorageSet ==
    SExpr(MethodCall(EnvStorage, "set", <<Ref(Path("key")), Ref(Path("amount"))>>))
\* env.storage().persistent().remove(&key);
StmtStorageRemove == SExpr(MethodCall(EnvStorage, "remove", <<Ref(Path("key"))>>))
\* let balance = env.storage().persistent().get(&key);
StmtStorageGet == Local(MethodCall(EnvStorage, "get", <<Ref(Path("key"))>>))
\* env.invoke_contract(&id, &func, args);
StmtInvoke ==
    SExpr(MethodCall(Path("env"), "invoke_contract",
            <<Ref(Path("id")), Ref(Path("func")), Path("args")>>))
\* impl Helper { fn h() { env.storage().persistent().set(..); } }  inside a body
StmtNestedImpl ==
    SItem(ItemImpl(<<ImplFn("h", "priv", FALSE, <<StmtStorageSet>>)>>))

\* env.storage().persistent().set(&key, &env.invoke_contract(&id, &func, args));
StmtSetOfInvoke ==
    SExpr(MethodCall(EnvStorage, "set",
            <<Ref(Path("key")),
              Ref(MethodCall(Path("env"), "invoke_contract",
                    <<Ref(Path("id")), Ref(Path("func")), Path("args")>>))>>))
\* token_client(&env).update(&key);
StmtUpdateOnClient ==
    SExpr(MethodCall(Call("token_client", <<Ref(Path("env"))>>), "update",
            <<Ref(Path("key"))>>))
\* token_client(&env);
StmtClientFn == SExpr(Call("token_client", <<Ref(Path("env"))>>))
\* storage.update(&key);
StmtUpdate == SExpr(MethodCall(Path("storage"), "update", <<Ref(Path("key"))>>))
\* env.storage().persistent().remove(&client.try_call(&key));
StmtRemoveOfTryCall ==
    SExpr(MethodCall(EnvStorage, "remove",
            <<Ref(MethodCall(Path("client"), "try_call", <<Ref(Path("key"))>>))>>))
\* client.try_call(&key);
StmtTryCall == SExpr(MethodCall(Path("client"), "try_call", <<Ref(Path("key"))>>))

\* Bodies in which a cross-contract call stands inside the receiver or the
\* arguments of a mutation, each with the body that makes the same calls in
\* the same order as separate statements.
ReNestedPairs ==
    {<<<<StmtSetOfInvoke>>, <<StmtInvoke, StmtStorageSet>>>>,
     <<<<StmtUpdateOnClient>>, <<StmtClientFn, StmtUpdate>>>>,
     <<<<StmtRemoveOfTryCall>>, <<StmtTryCall, StmtStorageRemove>>>>,
     <<<<StmtStorageGet, StmtSetOfInvoke>>, <<StmtStorageGet, StmtInvoke, StmtStorageSet>>>>}

RePool == {StmtClientNew, StmtClientTransfer, StmtStorageSet, StmtStorageGet,
           StmtInvoke, StmtNestedImpl}

ReBodies == SeqsUpTo(RePool, ReMaxStmts)

ReViolatingBody == <<StmtInvoke, StmtStorageSet, StmtStorageRemove>>
ReCleanBody     == <<StmtStorageSet, StmtInvoke>>

ReSiblings ==
    {ImplFn(n, "pub", FALSE, b) : n \in {"f", "g"},
                                   b \in {ReViolatingBody, ReCleanBody}}

ReSources ==
    LET first(b) == ImplFn("f", "pub", FALSE, b) IN
      {<<ItemImpl(<<first(b)>>)>> : b \in ReBodies}
    \cup {<<ItemImpl(<<first(b), s>>)>> : b \in ReBodies, s \in ReSiblings}
    \cup {<<ItemImpl(<<s, first(b)>>)>> : b \in ReBodies, s \in ReSiblings}
    \cup {<<ItemImpl(<<first(b)>>), ItemImpl(<<s>>)>> :
            b \in ReBodies, s \in ReSiblings}
    \cup {<<ItemImpl(<<first(ReViolatingBody)>>), Garbage>>,
          <<ItemFn("f", "pub", FALSE, ReViolatingBody)>>}
    \cup {<<ItemImpl(<<first(p[1])>>)>> : p \in ReNestedPairs}
    \cup {<<ItemImpl(<<first(p[2])>>)>> : p \in ReNestedPairs}

InitRe ==
    /\ re_source \in ReSources
    /\ re_pc = "parse"
    /\ re_todo = <<>>
    /\ rv_issues = <<>>
    /\ rv_current_fn = None
    /\ rv_saw_cross_call = FALSE
    /\ re_frames = <<>>
    /\ re_entered = FALSE
    /\ re_result = <<>>
    /\ SuIdle /\ RgIdle /\ SmIdle /\ AnIdle /\ VdIdle /\ GsIdle /\ CbIdle /\ GdIdle /\ TkIdle /\ RwIdle

NextRe ==
    \/ ScanParse
    \/ VisitImplItemFnEnter
    \/ VisitExprMethodCall
    \/ VisitExprCall
    \/ VisitImplItemFnExit
    \/ ScanReturn

SpecReentrancy == InitRe /\ [][NextRe]_vars

---------------------------------------------------------------------------
(* What a source holds, read off its syntax independently of the visitor *)

\* For each callback of a walk, the position of the "enter" of the innermost
\* function around it (0 outside every function).
RECURSIVE OwnersFrom(_, _, _)
OwnersFrom(E, k, stack) ==
    IF k > Len(E) THEN <<>>
    ELSE CASE E[k].e = "enter" -> <<k>> \o OwnersFrom(E, k + 1, <<k>> \o stack)
           [] E[k].e = "exit"  -> <<Head(stack)>> \o OwnersFrom(E, k + 1, Tail(stack))
           [] OTHER -> <<IF stack = <<>> THEN 0 ELSE Head(stack)>>
                          \o OwnersFrom(E, k + 1, stack)
Owners(E) == OwnersFrom(E, 1, <<>>)

FnIdx(E) == {i \in DOMAIN E : E[i].e = "enter"}

IsCallAt(E, a) == E[a].e \in {"method", "call"}

\* The function entered at i holds a mutation after a cross-contract call
\* (both its own: not those of a function nested in it).
ViolatingFn(E, i) ==
    LET o == Owners(E) IN
    \E a, b \in DOMAIN E :
        /\ a < b /\ o[a] = i /\ o[b] = i
        /\ IsCallAt(E, a) /\ is_cross_call(E[a].id)
        /\ IsCallAt(E, b) /\ is_mutation(E[b].id)

OwnCross(E, i) ==
    \E a \in DOMAIN E : Owners(E)[a] = i /\ IsCallAt(E, a) /\ is_cross_call(E[a].id)
OwnMutation(E, i) ==
    \E a \in DOMAIN E : Owners(E)[a] = i /\ IsCallAt(E, a) /\ is_mutation(E[a].id)

ReE == ReFileEvents(parse_str(re_source).items)
ReDone == re_pc = "done" /\ parse_str(re_source).ok
ReReported == {re_result[i].function_name : i \in DOMAIN re_result}

ReSingleFn(body) == <<ItemImpl(<<ImplFn("f", "pub", FALSE, body)>>)>>

\* C1: a function that builds a client with TokenClient::new, calls
\* client.transfer and then calls storage().persistent().set is reported by
\* name; with the set statement first, nothing is reported.
C1_ClientCallThenSetFlagged ==
    /\ (re_pc = "done" /\ re_source =
            ReSingleFn(<<StmtClientNew, StmtClientTransfer, StmtStorageSet>>)
          => \E i \in DOMAIN re_result : re_result[i].function_name = "f")
    /\ (re_pc = "done" /\ re_source =
            ReSingleFn(<<StmtStorageSet, StmtClientNew, StmtClientTransfer>>)
          => re_result = <<>>)

\* C4: the number of issues equals the number of impl-block functions that
\* hold a mutation after a cross-contract call.
C4_IssueCountEqualsViolatingFns ==
    ReDone => Len(re_result) = Cardinality({i \in FnIdx(ReE) : ViolatingFn(ReE, i)})

---------------------------------------------------------------------------
(* rules/mod.rs: RuleViolation *)

RuleViolation(rule_name, severity, message, location) ==
    [rule_name |-> rule_name, severity |-> severity, message |-> message,
     location |-> location, suggestion |-> None]

with_suggestion(violation, suggestion) ==
    [violation EXCEPT !.suggestion = Some(suggestion)]

---------------------------------------------------------------------------
(* rules/auth_gap.rs: AuthGapRule *)

AuthNames == {"require_auth", "require_auth_for_args"}

\* The tokens of the model whose text contains "storage", "persistent",
\* "temporary" or "instance".
StorageWords == {"storage", "persistent", "temporary", "instance",
                 "storage_key", "instance_id"}

\* quote!(..).to_string() of a node contains one of the storage words: some
\* token of the node does (tokens are printed apart from each other).
RECURSIVE TextHasStorageWord(_)
TextHasStorageWord(n) ==
    \/ n.id \in StorageWords
    \/ \E i \in DOMAIN n.kids : TextHasStorageWord(n.kids[i])

\* quote::quote!(#m.receiver): quote interpolates the variable m, the whole
\* method call, and appends the tokens ". receiver".
receiver_str_has_storage(m) == TextHasStorageWord(m)

NoFlags == [has_mutation |-> FALSE, has_read |-> FALSE, has_auth |-> FALSE]
OrFlags(a, b) ==
    [has_mutation |-> a.has_mutation \/ b.has_mutation,
     has_read     |-> a.has_read \/ b.has_read,
     has_auth     |-> a.has_auth \/ b.has_auth]

\* What check_expr sets at a method call, before it recurses.
MethodCallFlags(m) ==
    [has_mutation |-> m.id \in {"set", "update", "remove"}
                        /\ receiver_str_has_storage(m),
     has_read     |-> m.id = "get" /\ receiver_str_has_storage(m),
     has_auth     |-> m.id \in AuthNames]

\* check_fn_body and check_expr: the flags a block / an expression sets.
RECURSIVE check_fn_body(_), check_expr(_), check_exprs(_)
check_fn_body(stmts) ==
    IF stmts = <<>> THEN NoFlags
    ELSE LET st == Head(stmts)
             here ==
               CASE st.k = "SExpr" -> check_expr(st.kids[1])
                 [] st.k = "Local" ->
                      IF st.kids = <<>> THEN NoFlags ELSE check_expr(st.kids[1])
                 [] st.k = "SMacro" ->
                      [NoFlags EXCEPT !.has_auth = st.id \in AuthNames]
                 [] OTHER -> NoFlags
         IN OrFlags(here, check_fn_body(Tail(stmts)))
check_expr(e) ==
    CASE e.k = "Call" ->
            OrFlags([NoFlags EXCEPT !.has_auth = e.id \in AuthNames],
                    check_exprs(e.kids))
      [] e.k = "MethodCall" -> OrFlags(MethodCallFlags(e), check_exprs(e.kids))
      [] e.k = "Block" -> check_fn_body(e.kids)
      [] e.k = "If" ->
            \* cond, then_branch (a block), else_branch (an expression)
            OrFlags(check_expr(e.kids[1]),
                    OrFlags(check_fn_body(e.kids[2].kids),
                            IF Len(e.kids) > 2 THEN check_expr(e.kids[3])
                            ELSE NoFlags))
      [] e.k = "Match" -> check_exprs(e.kids)
      [] OTHER -> NoFlags
check_exprs(es) ==
    IF es = <<>> THEN NoFlags
    ELSE OrFlags(check_expr(Head(es)), check_exprs(Tail(es)))

AuthGapViolation(fn_name) ==
    with_suggestion(
        RuleViolation("auth_gap", "Warning",
            "Function '" \o fn_name
                \o "' performs storage mutation without authentication",
            fn_name),
        "Add require_auth() or require_auth_for_args() before storage operations")

\* The body of the loops of AuthGapRule::check for one impl item.
AuthGapOfImplItem(f) ==
    IF f.k = "ImplFn" /\ f.vis = "pub"
    THEN LET fl == check_fn_body(f.kids) IN
         IF fl.has_mutation /\ ~fl.has_read /\ ~fl.has_auth
         THEN <<AuthGapViolation(f.id)>> ELSE <<>>
    ELSE <<>>

RECURSIVE AuthGapOfImplItems(_)
AuthGapOfImplItems(fs) ==
    IF fs = <<>> THEN <<>>
    ELSE AuthGapOfImplItem(Head(fs)) \o AuthGapOfImplItems(Tail(fs))

RECURSIVE AuthGapOfItems(_)
AuthGapOfItems(items) ==
    IF items = <<>> THEN <<>>
    ELSE (IF Head(items).k = "Impl" THEN AuthGapOfImplItems(Head(items).kids)
          ELSE <<>>) \o AuthGapOfItems(Tail(items))

\* AuthGapRule::check with the parse error passed on as a finding.
AuthGapRule_check_reporting_parse_error(source) ==
    LET file == parse_str(source) IN
    IF ~file.ok THEN <<AuthGapViolation("parse error")>>
    ELSE AuthGapOfItems(file.items)

\* AuthGapRule::check
AuthGapRule_check(source) ==
    LET file == parse_str(source) IN
    IF ~file.ok THEN <<>> ELSE AuthGapOfItems(file.items)

---------------------------------------------------------------------------
(* rules/panic_detection.rs: PanicDetectionRule *)

PanicIssue(fn_name, issue_type) ==
    [function_name |-> fn_name, issue_type |-> issue_type, location |-> fn_name]

\* check_fn_panics and check_expr_panics: the issues pushed, in order.
RECURSIVE check_fn_panics(_, _), check_expr_panics(_, _), check_exprs_panics(_, _)
check_fn_panics(stmts, fn_name) ==
    IF stmts = <<>> THEN <<>>
    ELSE LET st == Head(stmts)
             here ==
               CASE st.k = "SExpr" -> check_expr_panics(st.kids[1], fn_name)
                 [] st.k = "Local" ->
                      IF st.kids = <<>> THEN <<>>
                      ELSE check_expr_panics(st.kids[1], fn_name)
                 [] st.k = "SMacro" ->
                      IF st.id = "panic" THEN <<PanicIssue(fn_name, "panic!")>>
                      ELSE <<>>
                 [] OTHER -> <<>>
         IN here \o check_fn_panics(Tail(stmts), fn_name)
check_expr_panics(e, fn_name) ==
    CASE e.k = "Macro" ->
            IF e.id = "panic" THEN <<PanicIssue(fn_name, "panic!")>> ELSE <<>>
      [] e.k = "MethodCall" ->
            (IF e.id \in {"unwrap", "expect"}
             THEN <<PanicIssue(fn_name, e.id)>> ELSE <<>>)
                \o check_exprs_panics(e.kids, fn_name)
      [] e.k = "Call" -> check_exprs_panics(e.kids, fn_name)
      [] e.k = "Block" -> check_fn_panics(e.kids, fn_name)
      [] e.k = "If" ->
            check_expr_panics(e.kids[1], fn_name)
                \o check_fn_panics(e.kids[2].kids, fn_name)
                \o (IF Len(e.kids) > 2 THEN check_expr_panics(e.kids[3], fn_name)
                    ELSE <<>>)
      [] e.k = "Match" -> check_exprs_panics(e.kids, fn_name)
      [] OTHER -> <<>>
check_exprs_panics(es, fn_name) ==
    IF es = <<>> THEN <<>>
    ELSE check_expr_panics(Head(es), fn_name) \o check_exprs_panics(Tail(es), fn_name)

RECURSIVE PanicsOfImplItems(_)
PanicsOfImplItems(fs) ==
    IF fs = <<>> THEN <<>>
    ELSE (IF Head(fs).k = "ImplFn" THEN check_fn_panics(Head(fs).kids, Head(fs).id)
          ELSE <<>>) \o PanicsOfImplItems(Tail(fs))

RECURSIVE PanicsOfItems(_)
PanicsOfItems(items) ==
    IF items = <<>> THEN <<>>
    ELSE (IF Head(items).k = "Impl" THEN PanicsOfImplItems(Head(items).kids)
          ELSE <<>>) \o PanicsOfItems(Tail(items))

PanicViolation(issue) ==
    with_suggestion(
        RuleViolation("panic_detection",
            IF issue.issue_type = "panic!" THEN "Error" ELSE "Warning",
            "Use of '" \o issue.issue_type \o "' can cause contract failure",
            issue.location),
        "Use Result types and proper error handling instead")

\* PanicDetectionRule::check
PanicDetectionRule_check(source) ==
    LET file == parse_str(source) IN
    IF ~file.ok THEN <<>>
    ELSE LET issues == PanicsOfItems(file.items) IN
         [i \in DOMAIN issues |-> PanicViolation(issues[i])]

---------------------------------------------------------------------------
(* Source lines.  A source is laid out one item after the other: an impl   *)
(* block takes a line for its header, its functions and a closing line; a  *)
(* function takes a header line, one line per statement of its body and a  *)
(* closing line; any other item takes one line.  span().start().line of a  *)
(* node is the line of the statement (or item) it is written in.           *)

FnHeight(f) == 2 + Len(f.kids)

RECURSIVE FnsHeight(_)
FnsHeight(fs) == IF fs = <<>> THEN 0 ELSE FnHeight(Head(fs)) + FnsHeight(Tail(fs))

ItemHeight(item) ==
    CASE item.k = "Impl" -> 2 + FnsHeight(item.kids)
      [] item.k \in {"ImplFn", "ItemFn"} -> FnHeight(item)
      [] OTHER -> 1

---------------------------------------------------------------------------
(* rules/arithmetic_overflow.rs: ArithmeticOverflowRule *)

\* ArithVisitor::classify_op: None, or Some((operator, suggestion)).
classify_op(op) ==
    CASE op = "+" -> Some(<<"+", "Use .checked_add(rhs) or .saturating_add(rhs) to handle overflow">>)
      [] op = "-" -> Some(<<"-", "Use .checked_sub(rhs) or .saturating_sub(rhs) to handle underflow">>)
      [] op = "*" -> Some(<<"*", "Use .checked_mul(rhs) or .saturating_mul(rhs) to handle overflow">>)
      [] op = "+=" -> Some(<<"+=", "Replace a += b with a = a.checked_add(b).expect(\"overflow\")">>)
      [] op = "-=" -> Some(<<"-=", "Replace a -= b with a = a.checked_sub(b).expect(\"underflow\")">>)
      [] op = "*=" -> Some(<<"*=", "Replace a *= b with a = a.checked_mul(b).expect(\"overflow\")">>)
      [] OTHER -> None

is_string_literal(e) == e.k = "LitStr"

ArithVisitorNew == [issues |-> <<>>, current_fn |-> None, seen |-> {}]

\* visit_expr_binary without the seen set: every use is pushed.
visit_expr_binary_every_use(v, node, line) ==
    IF /\ v.current_fn # None
       /\ classify_op(node.id) # None
       /\ ~is_string_literal(node.kids[1])
       /\ ~is_string_literal(node.kids[2])
    THEN [v EXCEPT
            !.issues = Append(@, [operation  |-> classify_op(node.id)[1][1],
                                  suggestion |-> classify_op(node.id)[1][2],
                                  location   |-> <<v.current_fn[1], line>>])]
    ELSE v

\* ArithVisitor::visit_expr_binary, before it recurses; location is
\* format!("{}:{}", fn_name, line), kept as the pair.
visit_expr_binary(v, node, line) ==
    IF /\ v.current_fn # None
       /\ classify_op(node.id) # None
       /\ ~is_string_literal(node.kids[1])
       /\ ~is_string_literal(node.kids[2])
       /\ <<v.current_fn[1], classify_op(node.id)[1][1]>> \notin v.seen
    THEN [v EXCEPT
            !.seen = @ \cup {<<v.current_fn[1], classify_op(node.id)[1][1]>>},
            !.issues = Append(@, [operation  |-> classify_op(node.id)[1][1],
                                  suggestion |-> classify_op(node.id)[1][2],
                                  location   |-> <<v.current_fn[1], line>>])]
    ELSE v

\* The walk of syn::visit with the three overridden methods: a function
\* (impl method or fn item, nested ones too) becomes current_fn for its
\* subtree and the previous value comes back after it.
RECURSIVE ArithVisit(_, _, _), ArithVisitSeq(_, _, _), ArithVisitBody(_, _, _)
ArithVisit(v, n, line) ==
    CASE n.k \in {"ImplFn", "ItemFn"} ->
            [ArithVisitSeq([v EXCEPT !.current_fn = Some(n.id)], n.kids, line)
                EXCEPT !.current_fn = v.current_fn]
      [] n.k = "Binary" -> ArithVisitSeq(visit_expr_binary(v, n, line), n.kids, line)
      [] n.k \in {"Macro", "SMacro", "Garbage"} -> v
      [] OTHER -> ArithVisitSeq(v, n.kids, line)
ArithVisitSeq(v, ns, line) ==
    IF ns = <<>> THEN v
    ELSE ArithVisitSeq(ArithVisit(v, Head(ns), line), Tail(ns), line)
\* the statements of a laid-out function body, one line each
ArithVisitBody(v, stmts, line) ==
    IF stmts = <<>> THEN v
    ELSE ArithVisitBody(ArithVisit(v, Head(stmts), line), Tail(stmts), line + 1)

ArithVisitFn(v, f, line) ==
    [ArithVisitBody([v EXCEPT !.current_fn = Some(f.id)], f.kids, line + 1)
        EXCEPT !.current_fn = v.current_fn]

RECURSIVE ArithVisitFns(_, _, _)
ArithVisitFns(v, fs, line) ==
    IF fs = <<>> THEN v
    ELSE ArithVisitFns(ArithVisitFn(v, Head(fs), line), Tail(fs),
                       line + FnHeight(Head(fs)))

\* visit_file
RECURSIVE ArithVisitItems(_, _, _)
ArithVisitItems(v, items, line) ==
    IF items = <<>> THEN v
    ELSE LET it == Head(items)
             w == CASE it.k = "Impl" -> ArithVisitFns(v, it.kids, line + 1)
                    [] it.k = "ItemFn" -> ArithVisitFn(v, it, line)
                    [] OTHER -> ArithVisit(v, it, line)
         IN ArithVisitItems(w, Tail(items), line + ItemHeight(it))

ArithViolation(issue) ==
    with_suggestion(
        RuleViolation("arithmetic_overflow", "Warning",
            <<"Unchecked '", issue.operation, "' operation could overflow">>,
            issue.location),
        issue.suggestion)

\* ArithmeticOverflowRule::check
ArithmeticOverflowRule_check(source) ==
    LET file == parse_str(source) IN
    IF ~file.ok THEN <<>>
    ELSE LET issues == ArithVisitItems(ArithVisitorNew, file.items, 1).issues IN
         [i \in DOMAIN issues |-> ArithViolation(issues[i])]

---------------------------------------------------------------------------
(* rules/unhandled_result.rs: UnhandledResultRule *)

\* Text is kept as the sequence of the UTF-8 byte widths of its characters
\* (all the code does with it is measure and cut it).
Ascii(n) == [i \in 1..n |-> 1]

\* A string literal whose characters have the byte widths w.
LitStrW(v, w) == [k |-> "LitStr", id |-> v, kids |-> <<>>, w |-> w]

\* quote::quote!(#expr).to_string(): the tokens of the expression, one after
\* the other with a space between them.
RECURSIVE TextOf(_), TextOfArgs(_)
TextOf(n) ==
    CASE n.k = "LitStr" ->
            Ascii(1) \o (IF "w" \in DOMAIN n THEN n.w ELSE Ascii(Len(n.id)))
                \o Ascii(1)
      [] n.k \in {"Path", "LitInt"} -> Ascii(Len(n.id))
      [] n.k = "Reference" -> Ascii(2) \o TextOf(n.kids[1])
      [] n.k = "MethodCall" ->
            TextOf(n.kids[1]) \o Ascii(3) \o Ascii(Len(n.id)) \o Ascii(2)
                \o TextOfArgs(Tail(n.kids)) \o Ascii(1)
      [] n.k = "Call" ->
            Ascii(Len(n.id)) \o Ascii(2) \o TextOfArgs(n.kids) \o Ascii(1)
      [] OTHER -> Ascii(Len(n.id)) \o Ascii(1) \o TextOfArgs(n.kids)
TextOfArgs(ns) ==
    IF ns = <<>> THEN <<>>
    ELSE IF Len(ns) = 1 THEN TextOf(ns[1])
    ELSE TextOf(Head(ns)) \o Ascii(3) \o TextOfArgs(Tail(ns))

\* s.len(): the length in bytes.
ByteLen(text) == SeqSum(text)

\* The number of leading characters of text that take n bytes together, or
\* -1 when byte n is inside a character (where &s[..n] panics).
CharsUpToByte(text, n) ==
    IF \E k \in 0..Len(text) : SeqSum(SubSeq(text, 1, k)) = n
    THEN CHOOSE k \in 0..Len(text) : SeqSum(SubSeq(text, 1, k)) = n
    ELSE -1

TruncateLimit == 80
TruncateKeep  == 77

\* ResultVisitor::expr_to_string on the rendered text.
expr_to_string(text) ==
    IF ByteLen(text) > TruncateLimit
    THEN IF CharsUpToByte(text, TruncateKeep) = -1
         THEN [panics |-> TRUE, text |-> <<>>]
         ELSE [panics |-> FALSE,
               text |-> SubSeq(text, 1, CharsUpToByte(text, TruncateKeep))
                            \o Ascii(3)]
    ELSE [panics |-> FALSE, text |-> text]

HandledMethods ==
    {"unwrap", "expect", "unwrap_or", "unwrap_or_else", "unwrap_or_default",
     "ok", "err", "is_ok", "is_err", "map", "map_err", "and_then", "or_else",
     "unwrap_unchecked", "expect_unchecked"}

\* ResultVisitor::is_handled
RECURSIVE is_handled(_)
is_handled(e) ==
    CASE e.k = "Try" -> TRUE
      [] e.k = "Match" -> TRUE
      [] e.k = "MethodCall" -> e.id \in HandledMethods
      [] e.k = "Assign" -> is_handled(e.kids[2])
      [] e.k = "Call" -> e.id \in {"Ok", "Err"}
      [] OTHER -> FALSE

\* ResultVisitor::call_returns_result
call_returns_result(call) == call.id \notin {"Ok", "Err", "Some", "None", "panic"}

UnhandledResultIssue(e, fn_name, line) ==
    [message  |-> <<"Result returned from '", expr_to_string(TextOf(e)).text,
                    "' is not handled">>,
     location |-> <<fn_name, line>>,
     panics   |-> expr_to_string(TextOf(e)).panics]

\* ResultVisitor::check_statement / check_expr / check_block: the issues
\* pushed, in order.  c is the visitor's context for the function:
\* [fn_name, is_public_fn, line].
RECURSIVE ur_check_statement(_, _, _), ur_check_expr(_, _, _),
          ur_check_exprs(_, _, _), ur_check_block(_, _, _)
ur_check_statement(st, frr, c) ==
    CASE st.k = "SExpr" -> ur_check_expr(st.kids[1], frr, c)
      [] st.k = "Local" ->
            IF st.kids = <<>> THEN <<>> ELSE ur_check_expr(st.kids[1], frr, c)
      [] OTHER -> <<>>
ur_check_expr(e, frr, c) ==
    CASE e.k = "Call" ->
            IF is_handled(e) THEN <<>>
            ELSE (IF call_returns_result(e) /\ ~frr /\ c.is_public_fn
                  THEN <<UnhandledResultIssue(e, c.fn_name, c.line)>>
                  ELSE <<>>) \o ur_check_exprs(e.kids, frr, c)
      [] e.k = "MethodCall" ->
            (IF ~is_handled(e) THEN ur_check_expr(e.kids[1], frr, c) ELSE <<>>)
                \o ur_check_exprs(Tail(e.kids), frr, c)
      [] e.k = "Try" -> ur_check_expr(e.kids[1], TRUE, c)
      [] e.k = "Match" -> ur_check_exprs(Tail(e.kids), frr, c)
      [] e.k = "If" ->
            ur_check_expr(e.kids[1], frr, c)
                \o ur_check_block(e.kids[2].kids, frr, c)
                \o (IF Len(e.kids) > 2 THEN ur_check_expr(e.kids[3], frr, c)
                    ELSE <<>>)
      [] e.k = "Block" -> ur_check_block(e.kids, frr, c)
      [] e.k = "Assign" -> ur_check_expr(e.kids[2], frr, c)
      [] OTHER -> <<>>
ur_check_exprs(es, frr, c) ==
    IF es = <<>> THEN <<>>
    ELSE ur_check_expr(Head(es), frr, c) \o ur_check_exprs(Tail(es), frr, c)
\* a block nested in a statement is written on the statement's line
ur_check_block(stmts, frr, c) ==
    IF stmts = <<>> THEN <<>>
    ELSE ur_check_statement(Head(stmts), frr, c) \o ur_check_block(Tail(stmts), frr, c)

\* the loop over node.block.stmts of visit_impl_item_fn / visit_item_fn
RECURSIVE UrBody(_, _, _)
UrBody(stmts, f, line) ==
    IF stmts = <<>> THEN <<>>
    ELSE ur_check_statement(Head(stmts), f.ret,
            [fn_name |-> f.id, is_public_fn |-> f.vis = "pub", line |-> line])
         \o UrBody(Tail(stmts), f, line + 1)

\* ResultVisitor::visit_impl_item_fn / visit_item_fn (neither walks on into
\* the body with syn::visit)
UrVisitFn(f, line) == UrBody(f.kids, f, line + 1)

RECURSIVE UrVisitFns(_, _)
UrVisitFns(fs, line) ==
    IF fs = <<>> THEN <<>>
    ELSE UrVisitFn(Head(fs), line) \o UrVisitFns(Tail(fs), line + FnHeight(Head(fs)))

RECURSIVE UrVisitItems(_, _)
UrVisitItems(items, line) ==
    IF items = <<>> THEN <<>>
    ELSE LET it == Head(items) IN
         (CASE it.k = "Impl" -> UrVisitFns(it.kids, line + 1)
            [] it.k = "ItemFn" -> UrVisitFn(it, line)
            [] OTHER -> <<>>)
         \o UrVisitItems(Tail(items), line + ItemHeight(it))

UnhandledResultViolation(issue) ==
    with_suggestion(
        RuleViolation("unhandled_result", "Warning", issue.message, issue.location),
        "Use ?, match, or .unwrap()/.expect() to handle the Result")

\* UnhandledResultRule::check: the violations, or the panic of the slice in
\* expr_to_string.
UnhandledResultRule_check(source) ==
    LET file == parse_str(source) IN
    IF ~file.ok THEN [panicked |-> FALSE, violations |-> <<>>]
    ELSE LET issues == UrVisitItems(file.items, 1) IN
         IF \E i \in DOMAIN issues : issues[i].panics
         THEN [panicked |-> TRUE, violations |-> <<>>]
         ELSE [panicked |-> FALSE,
               violations |-> [i \in DOMAIN issues |->
                                  UnhandledResultViolation(issues[i])]]

---------------------------------------------------------------------------
(* usize.  A natural number is kept as its little-endian bytes without     *)
(* trailing zeros, a usize being at most UsizeBytes of them, so that the    *)
(* estimator's arithmetic has the width it has in the build.               *)

UsizeBytes == 8
ByteBase   == 256

RECURSIVE Big(_)
Big(n) == IF n = 0 THEN <<>> ELSE <<n % ByteBase>> \o Big(n \div ByteBase)

RECURSIVE BigNorm(_)
BigNorm(a) ==
    IF a = <<>> THEN <<>>
    ELSE IF a[Len(a)] = 0 THEN BigNorm(SubSeq(a, 1, Len(a) - 1)) ELSE a

RECURSIVE BigAddC(_, _, _)
BigAddC(a, b, c) ==
    IF a = <<>> /\ b = <<>> THEN (IF c = 0 THEN <<>> ELSE <<c>>)
    ELSE LET x == IF a = <<>> THEN 0 ELSE Head(a)
             y == IF b = <<>> THEN 0 ELSE Head(b)
         IN <<(x + y + c) % ByteBase>>
                \o BigAddC(IF a = <<>> THEN <<>> ELSE Tail(a),
                           IF b = <<>> THEN <<>> ELSE Tail(b),
                           (x + y + c) \div ByteBase)
BigAdd(a, b) == BigAddC(a, b, 0)

RECURSIVE BigMulDigit(_, _, _)
BigMulDigit(a, d, c) ==
    IF a = <<>> THEN (IF c = 0 THEN <<>> ELSE <<c>>)
    ELSE <<(Head(a) * d + c) % ByteBase>>
            \o BigMulDigit(Tail(a), d, (Head(a) * d + c) \div ByteBase)

RECURSIVE BigMul(_, _)
BigMul(a, b) ==
    IF a = <<>> \/ b = <<>> THEN <<>>
    ELSE BigNorm(BigAdd(BigMulDigit(a, Head(b), 0), <<0>> \o BigMul(a, Tail(b))))

\* a < b
RECURSIVE BigLess(_, _)
BigLess(a, b) ==
    IF Len(a) # Len(b) THEN Len(a) < Len(b)
    ELSE IF a = <<>> THEN FALSE
    ELSE IF a[Len(a)] # b[Len(b)] THEN a[Len(a)] < b[Len(b)]
    ELSE BigLess(BigNorm(SubSeq(a, 1, Len(a) - 1)), BigNorm(SubSeq(b, 1, Len(b) - 1)))
BigGe(a, b) == ~BigLess(a, b)

FitsUsize(a) == Len(a) <= UsizeBytes
WrapUsize(a) == IF FitsUsize(a) THEN a ELSE BigNorm(SubSeq(a, 1, UsizeBytes))

\* The outcome of usize arithmetic: the value modulo 2^64 and whether some
\* operation on the way overflowed (a panic where overflow checks are
\* compiled in, the wrapped value where they are not).
U(n) == [v |-> Big(n), of |-> FALSE]
UAdd(x, y) ==
    [v |-> WrapUsize(BigAdd(x.v, y.v)),
     of |-> x.of \/ y.of \/ ~FitsUsize(BigAdd(x.v, y.v))]
UMul(x, y) ==
    [v |-> WrapUsize(BigMul(x.v, y.v)),
     of |-> x.of \/ y.of \/ ~FitsUsize(BigMul(x.v, y.v))]
UMax(x, y) == [v |-> IF BigLess(x.v, y.v) THEN y.v ELSE x.v, of |-> x.of \/ y.of]

---------------------------------------------------------------------------
(* Items with types: structs and enums *)

TyPath(name, args) == Node("TyPath", name, args)
TyOther            == Node("TyOther", "", <<>>)
GenericOther       == Node("GenericOther", "", <<>>)
\* [elem; len]: len is Some(n) for an integer literal of value n (a natural
\* of any size), None for any other expression
TyArray(elem, len) == [k |-> "TyArray", id |-> "", kids |-> <<elem>>, len |-> len]

\* An attribute: the form of its meta and the segments of its path.
Attr(form, segs) == [form |-> form, segs |-> segs]
AttrContracttype == Attr("Path", <<"contracttype">>)

Variant(name, fields) == Node("Variant", name, fields)
ItemStruct(name, attrs, fields) ==
    [k |-> "Struct", id |-> name, kids |-> fields, attrs |-> attrs]
ItemEnum(name, attrs, variants) ==
    [k |-> "Enum", id |-> name, kids |-> variants, attrs |-> attrs]

IsType(n) == n.k \in {"TyPath", "TyArray", "TyOther"}

---------------------------------------------------------------------------
(* rules/ledger_size.rs: LedgerSizeRule *)

\* LedgerSizeRule::new; approaching_threshold 0.8 is kept as the fraction 4/5.
LedgerSizeRuleNew ==
    [ledger_limit |-> 64000, approaching_threshold |-> <<4, 5>>,
     strict_mode |-> FALSE]

\* LedgerSizeRule::with_limit, with_approaching_threshold, with_strict_mode
with_limit(rule, limit) == [rule EXCEPT !.ledger_limit = limit]
with_approaching_threshold(rule, threshold) ==
    [rule EXCEPT !.approaching_threshold = threshold]
with_strict_mode(rule, strict) == [rule EXCEPT !.strict_mode = strict]

\* has_contracttype
has_contracttype(attrs) ==
    \E i \in DOMAIN attrs :
        /\ attrs[i].form = "Path"
        /\ \/ attrs[i].segs = <<"contracttype">>
           \/ \E j \in DOMAIN attrs[i].segs : attrs[i].segs[j] = "contracttype"

\* LedgerSizeRule::estimate_type_size
RECURSIVE estimate_type_size(_), SumTypeSizes(_)
estimate_type_size(ty) ==
    CASE ty.k = "TyPath" ->
            (CASE ty.id \in {"u32", "i32", "bool"} -> U(4)
               [] ty.id \in {"u64", "i64"} -> U(8)
               [] ty.id \in {"u128", "i128", "I128", "U128"} -> U(16)
               [] ty.id = "Address" -> U(32)
               [] ty.id \in {"Bytes", "BytesN", "String", "Symbol"} -> U(64)
               [] ty.id = "Vec" ->
                    IF ty.kids # <<>> /\ IsType(ty.kids[1])
                    THEN UAdd(U(8), estimate_type_size(ty.kids[1]))
                    ELSE U(128)
               [] ty.id = "Map" ->
                    IF SumTypeSizes(ty.kids).v # <<>>
                    THEN UAdd(U(16), UMul(SumTypeSizes(ty.kids), U(2)))
                    ELSE [U(128) EXCEPT !.of = SumTypeSizes(ty.kids).of]
               [] ty.id = "Option" ->
                    IF ty.kids # <<>> /\ IsType(ty.kids[1])
                    THEN UAdd(U(1), estimate_type_size(ty.kids[1]))
                    ELSE U(32)
               [] OTHER -> U(32))
      [] ty.k = "TyArray" ->
            IF ty.len # None /\ FitsUsize(ty.len[1])
            THEN UMul([v |-> ty.len[1], of |-> FALSE], estimate_type_size(ty.kids[1]))
            ELSE U(64)
      [] OTHER -> U(8)
\* the sum of the weights of the types among tys (the field loops, and the
\* filter_map(..).sum() over a Map's arguments)
SumTypeSizes(tys) ==
    IF tys = <<>> THEN U(0)
    ELSE UAdd(IF IsType(tys[Len(tys)]) THEN estimate_type_size(tys[Len(tys)])
              ELSE U(0),
              SumTypeSizes(SubSeq(tys, 1, Len(tys) - 1)))

\* LedgerSizeRule::estimate_struct_size
estimate_struct_size(s) == SumTypeSizes(s.kids)

DISCRIMINANT_SIZE == 4

\* LedgerSizeRule::estimate_enum_size
RECURSIVE MaxVariant(_)
MaxVariant(variants) ==
    IF variants = <<>> THEN U(0)
    ELSE UMax(MaxVariant(SubSeq(variants, 1, Len(variants) - 1)),
              SumTypeSizes(variants[Len(variants)].kids))
estimate_enum_size(e) == UAdd(U(DISCRIMINANT_SIZE), MaxVariant(e.kids))

\* classify_size with > where it has >=
classify_size_strictly_above(rule, size, strict_threshold) ==
    IF \/ BigLess(Big(rule.ledger_limit), size)
       \/ rule.strict_mode /\ BigLess(Big(strict_threshold), size)
    THEN Some("ExceedsLimit")
    ELSE IF BigLess(Big(rule.ledger_limit * rule.approaching_threshold[1]),
                    BigMul(size, Big(rule.approaching_threshold[2])))
    THEN Some("ApproachingLimit")
    ELSE None

\* LedgerSizeRule::classify_size (size a natural, as bytes)
classify_size(rule, size, strict_threshold) ==
    IF \/ BigGe(size, Big(rule.ledger_limit))
       \/ rule.strict_mode /\ BigGe(size, Big(strict_threshold))
    THEN Some("ExceedsLimit")
    ELSE IF BigGe(BigMul(size, Big(rule.approaching_threshold[2])),
                  Big(rule.ledger_limit * rule.approaching_threshold[1]))
    THEN Some("ApproachingLimit")
    ELSE None

LedgerViolation(rule, what, item, size, level) ==
    RuleViolation("ledger_size",
        IF level = "ExceedsLimit" THEN "Error" ELSE "Warning",
        <<what, " '", item.id, "' estimated size ", size,
          " bytes exceeds or approaches limit">>,
        <<item.id, ":estimated ", size, " bytes, limit ", rule.ledger_limit, " bytes">>)

\* The body of the loop of LedgerSizeRule::check for one item: the size
\* computed (with its overflow mark) and the violations pushed.
LedgerOfItem(rule, item) ==
    IF item.k \in {"Struct", "Enum"} /\ has_contracttype(item.attrs)
    THEN LET size == IF item.k = "Struct" THEN estimate_struct_size(item)
                     ELSE estimate_enum_size(item)
             level == classify_size(rule, size.v, rule.ledger_limit \div 2)
         IN [of |-> size.of,
             violations |->
                IF level = None THEN <<>>
                ELSE <<LedgerViolation(rule,
                          IF item.k = "Struct" THEN "Struct" ELSE "Enum",
                          item, size.v, level[1])>>]
    ELSE [of |-> FALSE, violations |-> <<>>]

RECURSIVE LedgerOfItems(_, _)
LedgerOfItems(rule, items) ==
    IF items = <<>> THEN [of |-> FALSE, violations |-> <<>>]
    ELSE LET h == LedgerOfItem(rule, Head(items))
             t == LedgerOfItems(rule, Tail(items))
         IN [of |-> h.of \/ t.of, violations |-> h.violations \o t.violations]

\* LedgerSizeRule::check in a build with (overflow_checks) or without
\* overflow checks: the violations, or the panic of an overflowing + or *.
LedgerSizeRule_check(rule, source, overflow_checks) ==
    LET file == parse_str(source) IN
    IF ~file.ok THEN [panicked |-> FALSE, violations |-> <<>>]
    ELSE IF LedgerOfItems(rule, file.items).of /\ overflow_checks
    THEN [panicked |-> TRUE, violations |-> <<>>]
    ELSE [panicked |-> FALSE,
          violations |-> LedgerOfItems(rule, file.items).violations]

---------------------------------------------------------------------------
(* lib.rs: Analyzer::analyze_ledger_size *)

AnalyzerNew(strict_mode) == [strict_mode |-> strict_mode, ledger_limit |-> 64000]

\* Analyzer::estimate_type_size
analyzer_estimate_type_size(ty) ==
    CASE ty.k = "TyPath" ->
            (CASE ty.id \in {"u32", "i32", "bool"} -> 4
               [] ty.id \in {"u64", "i64"} -> 8
               [] ty.id \in {"u128", "i128", "I128", "U128"} -> 16
               [] ty.id = "Address" -> 32
               [] ty.id \in {"Bytes", "BytesN", "String", "Symbol"} -> 64
               [] ty.id \in {"Vec", "Map"} -> 128
               [] OTHER -> 32)
      [] OTHER -> 8

\* Analyzer::estimate_struct_size
RECURSIVE analyzer_estimate_struct_size(_)
analyzer_estimate_struct_size(fields) ==
    IF fields = <<>> THEN 0
    ELSE analyzer_estimate_type_size(Head(fields))
            + analyzer_estimate_struct_size(Tail(fields))

SizeWarning(struct_name, estimated_size, limit) ==
    [struct_name |-> struct_name, estimated_size |-> estimated_size, limit |-> limit]

RECURSIVE AnalyzerWarningsOf(_, _)
AnalyzerWarningsOf(a, items) ==
    IF items = <<>> THEN <<>>
    ELSE LET it == Head(items)
             size == analyzer_estimate_struct_size(it.kids)
         IN (IF /\ it.k = "Struct"
                /\ \E i \in DOMAIN it.attrs :
                      it.attrs[i].form = "Path" /\ it.attrs[i].segs = <<"contracttype">>
                /\ \/ size > a.ledger_limit
                   \/ a.strict_mode /\ size > a.ledger_limit \div 2
             THEN <<SizeWarning(it.id, size, a.ledger_limit)>>
             ELSE <<>>) \o AnalyzerWarningsOf(a, Tail(items))

\* Analyzer::analyze_ledger_size
analyze_ledger_size(a, source) ==
    LET file == parse_str(source) IN
    IF ~file.ok THEN <<>> ELSE AnalyzerWarningsOf(a, file.items)

---------------------------------------------------------------------------
(* storage_collision.rs: StorageVisitor *)

ItemConst(name, expr) == Node("Const", name, <<expr>>)
\* a call through a path of several segments, e.g. Symbol::new(..)
CallPath(segs, as) ==
    [k |-> "Call", id |-> segs[Len(segs)], kids |-> as, segs |-> segs]
\* symbol_short!("v")
SymbolShort(v) ==
    [k |-> "Macro", id |-> "symbol_short", kids |-> <<>>, tokens |-> <<LitStr(v)>>]
Paren(e) == Node("Paren", "", <<e>>)

STORAGE_OPS == {"get", "set", "has", "remove", "update", "try_update"}

\* quote!(#e).to_string() as text
RECURSIVE RenderText(_), RenderArgs(_)
RenderText(n) ==
    CASE n.k = "LitStr" -> "\"" \o n.id \o "\""
      [] n.k \in {"Path", "LitInt"} -> n.id
      [] n.k = "Reference" -> "& " \o RenderText(n.kids[1])
      [] n.k = "MethodCall" ->
            RenderText(n.kids[1]) \o " . " \o n.id \o " (" \o RenderArgs(Tail(n.kids)) \o ")"
      [] n.k = "Call" -> n.id \o " (" \o RenderArgs(n.kids) \o ")"
      [] n.k = "Macro" ->
            n.id \o " ! (" \o (IF "tokens" \in DOMAIN n THEN RenderArgs(n.tokens) ELSE "") \o ")"
      [] OTHER -> n.id \o " " \o RenderArgs(n.kids)
RenderArgs(ns) ==
    IF ns = <<>> THEN ""
    ELSE IF Len(ns) = 1 THEN RenderText(ns[1])
    ELSE RenderText(Head(ns)) \o " , " \o RenderArgs(Tail(ns))

StorageVisitorNew == [collisions |-> <<>>, keys |-> <<>>]

KeyInfo(key_type, location, line) ==
    [key_type |-> key_type, location |-> location, line |-> line]

\* StorageVisitor::add_key; keys is the map from (storage_type, value) to
\* the occurrences pushed for it.
add_key(v, value, key_type, storage_type, location, line) ==
    LET key == <<storage_type, value>> IN
    [v EXCEPT !.keys =
        [q \in DOMAIN v.keys \cup {key} |->
            IF q = key
            THEN Append(IF key \in DOMAIN v.keys THEN v.keys[key] ELSE <<>>,
                        KeyInfo(key_type, location, line))
            ELSE v.keys[q]]]

\* final_check stopping at the first occurrence of a bucket.
BucketCollisions_first_only(key, infos) ==
    IF Len(infos) > 1
    THEN <<[key_value |-> key[2],
            key_type  |-> <<infos[1].key_type, key[1]>>,
            location  |-> <<infos[1].location, infos[1].line>>,
            message   |->
               <<"Potential ", key[1], " storage key collision: value '", key[2],
                 "' is also used in: ",
                 [j \in 1..(Len(infos) - 1) |->
                     <<infos[j + 1].location, infos[j + 1].line>>]>>]>>
    ELSE <<>>

\* The issues final_check pushes for one bucket.
BucketCollisions(key, infos) ==
    IF Len(infos) > 1
    THEN [i \in 1..Len(infos) |->
            [key_value |-> key[2],
             key_type  |-> <<infos[i].key_type, key[1]>>,
             location  |-> <<infos[i].location, infos[i].line>>,
             message   |->
                <<"Potential ", key[1], " storage key collision: value '", key[2],
                  "' is also used in: ",
                  [j \in 1..(Len(infos) - 1) |->
                      LET o == infos[IF j < i THEN j ELSE j + 1]
                      IN <<o.location, o.line>>]>>]]
    ELSE <<>>

\* The orders in which a HashMap may hand out its entries: every one.
IterationOrders(S) ==
    {o \in [1..Cardinality(S) -> S] : \A x \in S : \E i \in DOMAIN o : o[i] = x}

\* StorageVisitor::final_check when self.keys iterates in the given order.
RECURSIVE final_check(_, _)
final_check(v, order) ==
    IF order = <<>> THEN v
    ELSE final_check(
            [v EXCEPT !.collisions =
                @ \o BucketCollisions(Head(order), v.keys[Head(order)])],
            Tail(order))

\* StorageVisitor::parse_storage_type_from_expr
RECURSIVE parse_storage_type_from_expr(_)
parse_storage_type_from_expr(e) ==
    CASE e.k = "MethodCall" ->
            IF e.id \in {"instance", "persistent", "temporary"} THEN e.id
            ELSE parse_storage_type_from_expr(e.kids[1])
      [] e.k \in {"Reference", "Paren"} -> parse_storage_type_from_expr(e.kids[1])
      [] OTHER -> "unknown"

\* StorageVisitor::extract_key_value_expr
RECURSIVE extract_key_value_expr(_)
extract_key_value_expr(e) ==
    CASE e.k \in {"LitStr", "LitInt", "LitBool"} -> Some(e.id)
      [] e.k \in {"Path", "Call", "MethodCall", "Macro"} -> Some(RenderText(e))
      [] e.k \in {"Reference", "Paren"} -> extract_key_value_expr(e.kids[1])
      [] OTHER -> None

\* The visitor methods, before each hands over to syn::visit.
visit_item_const(v, i, line) ==
    IF i.kids[1].k = "LitStr"
    THEN add_key(v, i.kids[1].id, "const", "unknown", i.id, line)
    ELSE v

visit_expr_call(v, i, line) ==
    IF /\ "segs" \in DOMAIN i
       /\ Len(i.segs) >= 2
       /\ i.segs[1] = "Symbol" /\ i.segs[2] = "new"
       /\ Len(i.kids) >= 2
       /\ i.kids[2].k = "LitStr"
    THEN add_key(v, i.kids[2].id, "Symbol::new", "unknown", "inline", line)
    ELSE v

\* token_str.trim_matches('"'): the text of the tokens without the quotes
\* at its two ends
visit_expr_macro(v, i, line) ==
    IF i.id = "symbol_short"
    THEN add_key(v,
            IF "tokens" \in DOMAIN i /\ Len(i.tokens) = 1 /\ i.tokens[1].k = "LitStr"
            THEN i.tokens[1].id
            ELSE IF "tokens" \in DOMAIN i THEN RenderArgs(i.tokens) ELSE "",
            "symbol_short!", "unknown", "inline", line)
    ELSE v

visit_expr_method_call(v, i, line) ==
    IF /\ i.id \in STORAGE_OPS
       /\ Len(i.kids) > 1
       /\ extract_key_value_expr(i.kids[2]) # None
    THEN add_key(v, extract_key_value_expr(i.kids[2])[1], "storage::" \o i.id,
                 parse_storage_type_from_expr(i.kids[1]), "storage-op", line)
    ELSE v

\* The walk of syn::visit over the file with the four methods above.
RECURSIVE StVisit(_, _, _), StVisitSeq(_, _, _), StVisitBody(_, _, _)
StVisit(v, n, line) ==
    CASE n.k = "Const" -> StVisitSeq(visit_item_const(v, n, line), n.kids, line)
      [] n.k = "Call" -> StVisitSeq(visit_expr_call(v, n, line), n.kids, line)
      [] n.k = "Macro" -> visit_expr_macro(v, n, line)
      [] n.k = "MethodCall" ->
            StVisitSeq(visit_expr_method_call(v, n, line), n.kids, line)
      [] n.k \in {"SMacro", "Garbage"} -> v
      [] OTHER -> StVisitSeq(v, n.kids, line)
StVisitSeq(v, ns, line) ==
    IF ns = <<>> THEN v
    ELSE StVisitSeq(StVisit(v, Head(ns), line), Tail(ns), line)
StVisitBody(v, stmts, line) ==
    IF stmts = <<>> THEN v
    ELSE StVisitBody(StVisit(v, Head(stmts), line), Tail(stmts), line + 1)

RECURSIVE StVisitFns(_, _, _)
StVisitFns(v, fs, line) ==
    IF fs = <<>> THEN v
    ELSE StVisitFns(StVisitBody(v, Head(fs).kids, line + 1), Tail(fs),
                    line + FnHeight(Head(fs)))

RECURSIVE StVisitItems(_, _, _)
StVisitItems(v, items, line) ==
    IF items = <<>> THEN v
    ELSE LET it == Head(items)
             w == CASE it.k = "Impl" -> StVisitFns(v, it.kids, line + 1)
                    [] it.k = "ItemFn" -> StVisitBody(v, it.kids, line + 1)
                    [] OTHER -> StVisit(v, it, line)
         IN StVisitItems(w, Tail(items), line + ItemHeight(it))

---------------------------------------------------------------------------
(* The suite: RuleRegistry::with_default_rules().run_all, the storage-key   *)
(* collision scan, scan_reentrancy and Analyzer::analyze_ledger_size, run   *)
(* on a source, and then once more on the same source.                      *)

\* Analyzer::scan_storage_collisions, which is not among the sources: the
\* specification's section 4.7 (parse, visit the whole tree, final_check),
\* with the order in which the HashMap of keys iterates.
StorageKeys(source) == StVisitItems(StorageVisitorNew, parse_str(source).items, 1)
scan_storage_collisions(source, order) ==
    IF ~parse_str(source).ok THEN <<>>
    ELSE final_check(StorageKeys(source), order).collisions

NoOutput == [run_all |-> <<>>, collisions |-> <<>>, reentrancy |-> <<>>,
             size_warnings |-> <<>>]

\* One step of run_all's flat_map: the next rule's check, its violations
\* appended to the ones collected; a panic in the check ends the process.
RunRule(name, result, next) ==
    /\ su_pc = name
    /\ IF result.panicked
       THEN su_pc' = "aborted" /\ su_violations' = su_violations
       ELSE su_pc' = next /\ su_violations' = su_violations \o result.violations
    /\ UNCHANGED <<su_source, su_config, su_overflow_checks, su_out, su_first, su_run>>
    /\ UNCHANGED notSu

Returned(violations) == [panicked |-> FALSE, violations |-> violations]

RunAuthGap ==
    RunRule("auth_gap", Returned(AuthGapRule_check(su_source)), "ledger_size")

\* The ledger-size rule of the registry, built with the configuration in use.
ConfiguredLedgerSizeRule ==
    with_strict_mode(
        with_approaching_threshold(
            with_limit(LedgerSizeRuleNew, su_config.ledger_limit),
            su_config.approaching_threshold),
        su_config.strict_mode)

\* The analyzer with the configuration in use: ledger_limit is a public field.
ConfiguredAnalyzer ==
    [AnalyzerNew(su_config.strict_mode) EXCEPT !.ledger_limit = su_config.ledger_limit]

RunLedgerSize ==
    RunRule("ledger_size",
            LedgerSizeRule_check(ConfiguredLedgerSizeRule, su_source, su_overflow_checks),
            "panic_detection")

RunPanicDetection ==
    RunRule("panic_detection", Returned(PanicDetectionRule_check(su_source)),
            "arithmetic_overflow")

RunArithmeticOverflow ==
    RunRule("arithmetic_overflow", Returned(ArithmeticOverflowRule_check(su_source)),
            "unhandled_result")

RunUnhandledResult ==
    RunRule("unhandled_result", UnhandledResultRule_check(su_source), "run_all_return")

\* run_all returns what collect() gathered.
RunAllReturn ==
    /\ su_pc = "run_all_return"
    /\ su_out' = [su_out EXCEPT !.run_all = su_violations]
    /\ su_pc' = "storage_collisions"
    /\ UNCHANGED <<su_source, su_config, su_overflow_checks, su_violations, su_first, su_run>>
    /\ UNCHANGED notSu

ScanStorageCollisions ==
    /\ su_pc = "storage_collisions"
    /\ \E order \in IterationOrders(DOMAIN StorageKeys(su_source).keys) :
          su_out' = [su_out EXCEPT
                        !.collisions = scan_storage_collisions(su_source, order)]
    /\ su_pc' = "reentrancy"
    /\ UNCHANGED <<su_source, su_config, su_overflow_checks, su_violations, su_first, su_run>>
    /\ UNCHANGED notSu

ScanReentrancy ==
    /\ su_pc = "reentrancy"
    /\ su_out' = [su_out EXCEPT !.reentrancy = scan_reentrancy(su_source)]
    /\ su_pc' = "analyze_ledger_size"
    /\ UNCHANGED <<su_source, su_config, su_overflow_checks, su_violations, su_first, su_run>>
    /\ UNCHANGED notSu

AnalyzeLedgerSize ==
    /\ su_pc = "analyze_ledger_size"
    /\ su_out' = [su_out EXCEPT
                    !.size_warnings = analyze_ledger_size(ConfiguredAnalyzer, su_source)]
    /\ su_pc' = "end"
    /\ UNCHANGED <<su_source, su_config, su_overflow_checks, su_violations, su_first, su_run>>
    /\ UNCHANGED notSu

\* The same source comes up again: every detector starts afresh.
SuiteRunAgain ==
    /\ su_pc = "end" /\ su_run = 1
    /\ su_first' = <<su_out>>
    /\ su_run' = 2
    /\ su_pc' = "auth_gap"
    /\ su_violations' = <<>>
    /\ su_out' = NoOutput
    /\ UNCHANGED <<su_source, su_config, su_overflow_checks>>
    /\ UNCHANGED notSu

SuiteDone ==
    /\ su_pc = "end" /\ su_run = 2
    /\ su_pc' = "done"
    /\ UNCHANGED <<su_source, su_config, su_overflow_checks, su_violations,
                   su_out, su_first, su_run>>
    /\ UNCHANGED notSu

---------------------------------------------------------------------------
(* Sources the suite is run on *)

SuMaxRest == 1

InstanceStorage == MethodCall(MethodCall(Path("env"), "storage", <<>>), "instance", <<>>)

\* admin.require_auth()
PAuth      == MethodCall(Path("admin"), "require_auth", <<>>)
\* env.storage().instance().set(&KEY, &v)
PSet       == MethodCall(InstanceStorage, "set", <<Ref(Path("KEY")), Ref(Path("v"))>>)
\* env.storage().instance().get(&KEY)
PGet       == MethodCall(InstanceStorage, "get", <<Ref(Path("KEY"))>>)
\* map.set(storage_key, v): a set on something that is not storage
PMapSet    == MethodCall(Path("map"), "set", <<Path("storage_key"), Path("v")>>)
PUnwrap    == MethodCall(Path("x"), "unwrap", <<>>)
PExpect    == MethodCall(Path("x"), "expect", <<LitStr("msg")>>)
PPanic     == ExprMacro("panic")
PAdd       == Binary("+", Path("a"), Path("b"))
PAddAdd    == Binary("+", Binary("+", Path("a"), Path("b")), Path("c"))
PConcat    == Binary("+", LitStr("s"), Path("b"))
PDiv       == Binary("/", Path("a"), Path("b"))
PMulAssign == Binary("*=", Path("a"), Path("b"))
\* transfer(to)
PCall      == Call("transfer", <<Path("to")>>)
\* emit("<30 three-byte characters>")
PCallLong  == Call("emit", <<LitStrW("euros", [i \in 1..30 |-> 3])>>)
\* emit("<82 one-byte characters>")
PCallLongAscii == Call("emit", <<LitStrW("text", Ascii(82))>>)

\* the expressions tried at every place of a body
Payloads == {PAuth, PSet, PGet, PUnwrap, PPanic, PAdd}
\* the expressions tried as a statement and as the value of a let
StmtPayloads == {PMapSet, PExpect, PAddAdd, PConcat, PDiv, PMulAssign, PCall,
                 PCallLong, PCallLongAscii}

Contexts == {"stmt", "let", "block", "if_cond", "if_then", "if_else",
             "match_on", "match_arm", "loop", "closure", "binary", "reference",
             "call_arg", "method_arg", "receiver", "try", "assign", "return",
             "nested_fn"}

\* The statement that holds expression e at the place c names.
Wrap(c, e) ==
    CASE c = "stmt"       -> SExpr(e)
      [] c = "let"        -> Local(e)
      [] c = "block"      -> SExpr(Block(<<SExpr(e)>>))
      [] c = "if_cond"    -> SExpr(IfThen(e, <<>>))
      [] c = "if_then"    -> SExpr(IfThen(Path("c"), <<SExpr(e)>>))
      [] c = "if_else"    -> SExpr(IfElse(Path("c"), <<>>, Block(<<SExpr(e)>>)))
      [] c = "match_on"   -> SExpr(Match(e, <<Path("d")>>))
      [] c = "match_arm"  -> SExpr(Match(Path("x"), <<e>>))
      [] c = "loop"       -> SExpr(Loop(<<SExpr(e)>>))
      [] c = "closure"    -> Local(Closure(e))
      [] c = "binary"     -> SExpr(Binary("==", e, Path("z")))
      [] c = "reference"  -> Local(Ref(e))
      [] c = "call_arg"   -> SExpr(Call("helper", <<e>>))
      [] c = "method_arg" -> SExpr(MethodCall(Path("o"), "push", <<e>>))
      [] c = "receiver"   -> SExpr(MethodCall(e, "clone", <<>>))
      [] c = "try"        -> SExpr(Try(e))
      [] c = "assign"     -> SExpr(Assign(Path("y"), e))
      [] c = "return"     -> SExpr(Return(e))
      [] c = "nested_fn"  -> SItem(ItemFn("inner", "", FALSE, <<SExpr(e)>>))

PlainStmts == {SExpr(PSet), SExpr(PAuth), SExpr(PAdd)}

SuFirstStmts ==
    {Wrap(c, e) : c \in Contexts, e \in Payloads}
        \cup {Wrap(c, e) : c \in {"stmt", "let"}, e \in StmtPayloads}

SuBodies ==
    {<<st>> \o rest : st \in SuFirstStmts, rest \in SeqsUpTo(PlainStmts, SuMaxRest)}

\* (visibility, returns a Result)
FnHeads == {<<"pub", FALSE>>, <<"", FALSE>>, <<"pub", TRUE>>}

SuFnSources ==
    {<<ItemImpl(<<ImplFn("f", h[1], h[2], b)>>)>> : h \in FnHeads, b \in SuBodies}

\* Two functions, of the same name or not, in one impl block or in two, and
\* a function outside every impl block.
SuTwoFnSources ==
    LET f(n, b) == ImplFn(n, "pub", FALSE, b)
        bodies == {<<SExpr(PAdd)>>, <<SExpr(PAdd), Local(PMulAssign)>>,
                   <<SExpr(PSet)>>, <<SExpr(PUnwrap), SMacro("panic"), Local(PExpect)>>}
    IN {<<ItemImpl(<<f("f", b1), f(n, b2)>>)>> :
            n \in {"f", "g"}, b1 \in bodies, b2 \in bodies}
       \cup {<<ItemImpl(<<f("f", b1)>>), ItemImpl(<<f(n, b2)>>)>> :
            n \in {"f", "g"}, b1 \in bodies, b2 \in bodies}
       \cup {<<ItemFn("free", "pub", FALSE, b)>> : b \in bodies}

\* 2^32, as bytes
TwoTo32 == <<0, 0, 0, 0, 1>>
\* 2^60, as bytes
TwoTo60 == <<0, 0, 0, 0, 0, 0, 0, 16>>
\* 2^64, as bytes: more than a usize holds
TwoTo64 == <<0, 0, 0, 0, 0, 0, 0, 0, 1>>

SuFieldTypes ==
    {TyPath("u32", <<>>), TyPath("Bytes", <<>>), TyPath("Custom", <<>>),
     TyPath("Vec", <<TyPath("u64", <<>>)>>), TyPath("Vec", <<>>),
     TyPath("Map", <<TyPath("u32", <<>>), TyPath("Address", <<>>)>>),
     TyPath("Option", <<TyPath("u128", <<>>)>>), TyOther,
     TyArray(TyPath("u32", <<>>), Some(Big(12799))),
     TyArray(TyPath("u32", <<>>), Some(Big(12800))),
     TyArray(TyPath("u32", <<>>), Some(Big(16000))),
     TyArray(TyPath("u8", <<>>), None),
     TyArray(TyPath("u8", <<>>), Some(TwoTo64)),
     TyArray(TyArray(TyPath("u64", <<>>), Some(TwoTo32)), Some(TwoTo32))}

\* Types whose fields are [u64; 2^60], 2^63 bytes each; enums of unit
\* variants only, and of two variants with fields.
SuWideSources ==
    LET wide == TyArray(TyPath("u64", <<>>), Some(TwoTo60))
        ty(n) == TyPath(n, <<>>)
    IN {<<ItemStruct("Wide", <<AttrContracttype>>, <<wide, wide>>)>>,
        <<ItemEnum("WideKind", <<AttrContracttype>>,
                   <<Variant("A", <<wide>>), Variant("B", <<wide, wide>>)>>)>>,
        <<ItemEnum("Flag", <<AttrContracttype>>,
                   <<Variant("On", <<>>), Variant("Off", <<>>)>>)>>,
        <<ItemEnum("Two", <<AttrContracttype>>,
                   <<Variant("A", <<ty("Bytes"), ty("u32")>>),
                     Variant("B", <<ty("Address"), ty("Address"), ty("u64")>>)>>)>>}

SuTypeSources ==
    {<<ItemStruct("Data", as, <<t1, t2>>)>> :
        as \in {<<AttrContracttype>>, <<>>, <<Attr("List", <<"derive">>)>>},
        t1 \in SuFieldTypes, t2 \in {TyPath("u32", <<>>), TyPath("Bytes", <<>>)}}
    \cup {<<ItemEnum("Kind", <<AttrContracttype>>,
                     <<Variant("A", <<>>), Variant("B", <<t1, t2>>)>>)>> :
        t1 \in SuFieldTypes, t2 \in {TyPath("u32", <<>>), TyPath("Bytes", <<>>)}}
    \cup SuWideSources


\* Types of a few small sizes: 4, 8, 12, 16, 36, 64 and 64 bytes.
SuSizeSources ==
    LET ty(n) == TyPath(n, <<>>) IN
    {<<ItemStruct("Data", <<AttrContracttype>>, fs)>> :
        fs \in {<<ty("u32")>>, <<ty("u64")>>, <<ty("u32"), ty("u64")>>,
                <<ty("u128")>>, <<ty("Bytes")>>,
                <<ty("u128"), ty("u128"), ty("u128"), ty("u128")>>}}
    \cup {<<ItemEnum("DataKey", <<AttrContracttype>>,
                     <<Variant("Balance", <<ty("Address")>>), Variant("Admin", <<>>)>>)>>}

\* The configuration LedgerSizeRule::new and Analyzer::new start from.
DefaultConfig ==
    [ledger_limit |-> LedgerSizeRuleNew.ledger_limit,
     approaching_threshold |-> LedgerSizeRuleNew.approaching_threshold,
     strict_mode |-> LedgerSizeRuleNew.strict_mode]

\* Limits at, just above, at twice and just above twice the sizes above;
\* thresholds 0.5, 0.75 and 0.8.
SuLimits == {8, 9, 16, 17, 20, 50, 64, 65, 100, 128, 129}
SuThresholds == {<<1, 2>>, <<3, 4>>, <<4, 5>>}
SuConfigs ==
    [ledger_limit : SuLimits, approaching_threshold : SuThresholds,
     strict_mode : BOOLEAN]

\* Constants and inline symbols that share values, or do not.
SuKeySources ==
    LET c(n, v) == ItemConst(n, LitStr(v)) IN
    {<<c("KEY_A", "collision"), c("KEY_B", "collision")>>,
     <<c("KEY_A", "alpha"), c("KEY_B", "beta")>>,
     <<c("KEY_A", "collision"), c("KEY_B", "collision"),
       c("KEY_C", "dup"), c("KEY_D", "dup")>>,
     <<c("KEY_A", "dup"), c("KEY_B", "dup"), c("KEY_C", "dup"), c("KEY_D", "alone")>>,
     <<ItemImpl(<<ImplFn("a", "pub", FALSE, <<Local(SymbolShort("tok"))>>),
                  ImplFn("b", "pub", FALSE, <<Local(SymbolShort("tok"))>>)>>)>>,
     <<ItemImpl(<<ImplFn("a", "pub", FALSE,
                    <<Local(CallPath(<<"Symbol", "new">>,
                                     <<Ref(Path("env")), LitStr("shared_key")>>))>>),
                  ImplFn("b", "pub", FALSE,
                    <<Local(CallPath(<<"Symbol", "new">>,
                                     <<Ref(Path("env")), LitStr("shared_key")>>))>>)>>)>>}

PersistentStorage ==
    MethodCall(MethodCall(Path("env"), "storage", <<>>), "persistent", <<>>)

\* The ways a key is written as the first argument of a storage call:
\* "k", &KEY, &symbol_short!("k"), &Symbol::new(&env, "k")
SuKeyForms ==
    {LitStr("k"), Ref(Path("KEY")), Ref(SymbolShort("k")),
     Ref(CallPath(<<"Symbol", "new">>, <<Ref(Path("env")), LitStr("k")>>))}

\* One key used once under instance() and once under persistent(), in one
\* function or in two.
SuScopeSources ==
    LET inst(k) == SExpr(MethodCall(InstanceStorage, "set", <<k, Ref(Path("v"))>>))
        pers(k) == Local(MethodCall(PersistentStorage, "get", <<k>>))
        f(n, b) == ImplFn(n, "pub", FALSE, b)
    IN {<<ItemImpl(<<f("f", <<inst(k), pers(k)>>)>>)>> : k \in SuKeyForms}
       \cup {<<ItemImpl(<<f("f", <<inst(k)>>), f("g", <<pers(k)>>)>>)>> :
                k \in SuKeyForms}

\* Text that does not parse: on its own, and after items every detector
\* would report on if the rest parsed.
SuBrokenSources ==
    {<<Garbage>>}
    \cup {src \o <<Garbage>> :
            src \in {<<ItemImpl(<<ImplFn("f", "pub", FALSE,
                                    <<SExpr(PSet), SExpr(PUnwrap), SExpr(PAdd),
                                      SExpr(PCall)>>)>>)>>,
                     <<ItemImpl(<<ImplFn("f", "pub", FALSE, ReViolatingBody)>>)>>,
                     <<ItemStruct("Data", <<AttrContracttype>>,
                                  <<TyArray(TyPath("u32", <<>>), Some(Big(16001)))>>)>>,
                     <<ItemConst("KEY_A", LitStr("collision")),
                       ItemConst("KEY_B", LitStr("collision"))>>}}

\* Files that parse and hold nothing a detector looks for.
SuPlainSources ==
    {<<>>,
     <<ItemFn("helper", "", FALSE, <<>>)>>,
     <<ItemStruct("Unit", <<>>, <<>>), ItemImpl(<<ImplFn("noop", "pub", FALSE, <<>>)>>)>>}

SuSources ==
    SuFnSources \cup SuTwoFnSources \cup SuTypeSources \cup SuSizeSources
        \cup SuKeySources \cup SuScopeSources \cup SuBrokenSources \cup SuPlainSources

InitSuite ==
    /\ su_source \in SuSources
    /\ su_config \in (IF su_source \in SuSizeSources THEN SuConfigs ELSE {})
                        \cup {DefaultConfig}
    /\ su_overflow_checks \in BOOLEAN
    /\ su_pc = "auth_gap"
    /\ su_violations = <<>>
    /\ su_out = NoOutput
    /\ su_first = <<>>
    /\ su_run = 1
    /\ ReIdle /\ RgIdle /\ SmIdle /\ AnIdle /\ VdIdle /\ GsIdle /\ CbIdle /\ GdIdle /\ TkIdle /\ RwIdle

NextSuite ==
    \/ RunAuthGap
    \/ RunLedgerSize
    \/ RunPanicDetection
    \/ RunArithmeticOverflow
    \/ RunUnhandledResult
    \/ RunAllReturn
    \/ ScanStorageCollisions
    \/ ScanReentrancy
    \/ AnalyzeLedgerSize
    \/ SuiteRunAgain
    \/ SuiteDone

SpecSuite == InitSuite /\ [][NextSuite]_vars

---------------------------------------------------------------------------
(* What the source of the suite holds, read off its syntax *)

SuParses == \A i \in DOMAIN su_source : su_source[i].k # "Garbage"

\* The steps of a pass in order; Ran(step) holds once the step is over in
\* the current pass (of a pass that has not aborted).
SuOrder == <<"auth_gap", "ledger_size", "panic_detection", "arithmetic_overflow",
             "unhandled_result", "run_all_return", "storage_collisions",
             "reentrancy", "analyze_ledger_size", "end", "done">>
SuPos(step) == CHOOSE i \in DOMAIN SuOrder : SuOrder[i] = step
Ran(step) == su_pc \in Range(SuOrder) /\ SuPos(su_pc) > SuPos(step)

\* The violations collected so far that a rule made.
ViolationsOf(rule_name) == SelectSeq(su_violations, LAMBDA v : v.rule_name = rule_name)

\* The functions of the impl blocks of a source, in order.
RECURSIVE ImplFnsOf(_)
ImplFnsOf(items) ==
    IF items = <<>> THEN <<>>
    ELSE (IF Head(items).k = "Impl"
          THEN SelectSeq(Head(items).kids, LAMBDA f : f.k = "ImplFn") ELSE <<>>)
         \o ImplFnsOf(Tail(items))

\* Every node written in a function body, the body's statements included,
\* in source order; the items declared inside the body are not part of it.
RECURSIVE NodesOf(_), NodesOfSeq(_)
NodesOf(n) == IF n.k = "SItem" THEN <<>> ELSE <<n>> \o NodesOfSeq(n.kids)
NodesOfSeq(ns) ==
    IF ns = <<>> THEN <<>> ELSE NodesOf(Head(ns)) \o NodesOfSeq(Tail(ns))
BodyNodes(f) == NodesOfSeq(f.kids)

IsCallNamed(n, names) == n.k \in {"MethodCall", "Call"} /\ n.id \in names
OnStorage(n) == n.k = "MethodCall" /\ TextHasStorageWord(n.kids[1])

Mutates(f) ==
    \E i \in DOMAIN BodyNodes(f) :
        LET n == BodyNodes(f)[i] IN n.id \in {"set", "update", "remove"} /\ OnStorage(n)
Reads(f) ==
    \E i \in DOMAIN BodyNodes(f) :
        LET n == BodyNodes(f)[i] IN n.id = "get" /\ OnStorage(n)
Authorizes(f) ==
    \E i \in DOMAIN BodyNodes(f) : IsCallNamed(BodyNodes(f)[i], AuthNames)

Names(fs) == [i \in DOMAIN fs |-> fs[i].id]

\* C2: the functions AuthGapRule reports are the public impl-block functions
\* that mutate storage and neither read it nor authorize, each one once and
\* no other function.
C2_AuthGapIffMutationWithoutReadOrAuth ==
    SuParses /\ Ran("auth_gap") =>
        [i \in DOMAIN ViolationsOf("auth_gap") |-> ViolationsOf("auth_gap")[i].location]
          = Names(SelectSeq(ImplFnsOf(su_source),
                LAMBDA f : f.vis = "pub" /\ Mutates(f) /\ ~Reads(f) /\ ~Authorizes(f)))

\* set on storage().instance()
SetsInstance(f) ==
    \E i \in DOMAIN BodyNodes(f) :
        LET n == BodyNodes(f)[i] IN
        /\ n.k = "MethodCall" /\ n.id = "set"
        /\ n.kids[1] = InstanceStorage
CallsRequireAuth(f) ==
    \E i \in DOMAIN BodyNodes(f) :
        LET n == BodyNodes(f)[i] IN n.k = "MethodCall" /\ n.id = "require_auth"

\* C3: a public function that calls set on storage().instance() and calls
\* require_auth() somewhere in its body, wherever that is, is not reported
\* by the auth-gap rule.
C3_RequireAuthAnywhereRemovesFlag ==
    SuParses /\ Ran("auth_gap") =>
        \A i \in DOMAIN ImplFnsOf(su_source) :
            LET f == ImplFnsOf(su_source)[i] IN
            f.vis = "pub" /\ SetsInstance(f) /\ CallsRequireAuth(f) =>
                \A j \in DOMAIN ViolationsOf("auth_gap") :
                    ViolationsOf("auth_gap")[j].location # f.id

\* Every node of a source with the function it is written in (the innermost
\* one; None outside every function), in source order.
RECURSIVE NodesIn(_, _), NodesInSeq(_, _)
NodesIn(n, fn) ==
    IF n.k \in {"ImplFn", "ItemFn"} THEN NodesInSeq(n.kids, Some(n.id))
    ELSE <<[fn |-> fn, n |-> n]>> \o NodesInSeq(n.kids, fn)
NodesInSeq(ns, fn) ==
    IF ns = <<>> THEN <<>> ELSE NodesIn(Head(ns), fn) \o NodesInSeq(Tail(ns), fn)

ArithmeticOperators == {"+", "-", "*", "+=", "-=", "*="}

\* The uses of an arithmetic operator inside a function, no operand being a
\* string literal.
ArithmeticUses(source) ==
    SelectSeq(NodesInSeq(source, None),
        LAMBDA o : /\ o.fn # None
                   /\ o.n.k = "Binary"
                   /\ o.n.id \in ArithmeticOperators
                   /\ o.n.kids[1].k # "LitStr" /\ o.n.kids[2].k # "LitStr")

UsePair(o) == <<o.fn[1], o.n.id>>
FindingPair(v) == <<v.location[1], v.message[2]>>

\* C6: the findings of ArithmeticOverflowRule are one for each (function
\* name, operator) pair with a use of the operator in the function, no
\* operand a string literal: no pair twice, no pair missing, none else.
C6_OneFindingPerFunctionAndOperator ==
    SuParses /\ Ran("arithmetic_overflow") =>
        LET found == ViolationsOf("arithmetic_overflow")
            uses  == ArithmeticUses(su_source)
        IN /\ \A i, j \in DOMAIN found :
                  FindingPair(found[i]) = FindingPair(found[j]) => i = j
           /\ {FindingPair(found[i]) : i \in DOMAIN found}
                = {UsePair(uses[i]) : i \in DOMAIN uses}

\* The rule has run on a source where one function uses + twice and another
\* operator as well, and has one finding for each of the two operators.
C6_Witness ==
    /\ SuParses /\ Ran("arithmetic_overflow")
    /\ LET uses == ArithmeticUses(su_source) IN
         /\ \E i, j \in DOMAIN uses : i # j /\ UsePair(uses[i]) = UsePair(uses[j])
         /\ \E i, j \in DOMAIN uses : uses[i].n.id # uses[j].n.id
    /\ Len(ViolationsOf("arithmetic_overflow")) = 2

IsPanicOccurrence(n) ==
    \/ n.k \in {"Macro", "SMacro"} /\ n.id = "panic"
    \/ n.k = "MethodCall" /\ n.id \in {"unwrap", "expect"}

PanicOccurrences(f) == Len(SelectSeq(BodyNodes(f), IsPanicOccurrence))

\* C7: for every impl-block function the number of findings of
\* PanicDetectionRule equals the number of panic!, .unwrap() and .expect()
\* written in its body.
C7_OneFindingPerPanicOccurrence ==
    SuParses /\ Ran("panic_detection") =>
        \A i \in DOMAIN ImplFnsOf(su_source) :
            LET name == ImplFnsOf(su_source)[i].id IN
            Len(SelectSeq(ViolationsOf("panic_detection"),
                          LAMBDA v : v.location = name))
              = SeqSum([j \in DOMAIN ImplFnsOf(su_source) |->
                          IF ImplFnsOf(su_source)[j].id = name
                          THEN PanicOccurrences(ImplFnsOf(su_source)[j]) ELSE 0])

\* C8: no detector panics: no pass over a source ends in an abort, whatever
\* the source and whether or not the build checks for overflow.
C8_NoDetectorPanics == su_pc # "aborted"

\* C9: when the source does not parse, every detector returns an empty
\* list and none aborts: nothing is collected by run_all and every list
\* returned, in either pass, is empty, which is what the detectors return
\* for a file that parses and holds nothing they look for.
C9_ParseFailureYieldsEmptyLists ==
    ~SuParses \/ su_source \in SuPlainSources =>
        /\ su_pc # "aborted"
        /\ su_violations = <<>>
        /\ su_out = NoOutput
        /\ su_first \in {<<>>, <<NoOutput>>}

\* Both passes are over on a source that does not parse and that holds
\* items the detectors report on when they are on their own.
C9_Witness ==
    /\ ~SuParses
    /\ su_pc = "done"
    /\ su_first = <<NoOutput>>
    /\ \E i \in DOMAIN su_source :
          AuthGapRule_check(<<su_source[i]>>) # <<>>

\* C10: the second pass over a source returns the lists the first pass
\* returned: the same findings in the same order.
C10_SecondPassEqualsFirst ==
    su_pc = "done" => su_first = <<su_out>>

---------------------------------------------------------------------------
(* Storage-key collisions *)

\* The findings of the collision scan for one (scope, value) bucket, in the
\* order they were emitted.
FindingsOfBucket(key) ==
    SelectSeq(su_out.collisions,
              LAMBDA c : c.key_value = key[2] /\ c.key_type[2] = key[1])

\* Where an occurrence is: its location and its line.
PlaceOf(info) == <<info.location, info.line>>

\* The places of all occurrences of a bucket but the i-th, in order.
OtherPlaces(infos, i) ==
    [j \in 1..(Len(infos) - 1) |-> PlaceOf(infos[IF j < i THEN j ELSE j + 1])]

\* C11: after a file is visited, every (scope, value) bucket holding n > 1
\* occurrences has exactly n findings, the i-th for the i-th occurrence and
\* listing the places of the other n - 1; a bucket of one occurrence has no
\* finding, and there is no finding outside the buckets.
C11_OneFindingPerOccurrenceOfSharedKey ==
    SuParses /\ Ran("storage_collisions") =>
        LET keys == StorageKeys(su_source).keys IN
        /\ \A key \in DOMAIN keys :
              LET infos == keys[key]
                  found == FindingsOfBucket(key)
              IN IF Len(infos) > 1
                 THEN /\ Len(found) = Len(infos)
                      /\ \A i \in DOMAIN found :
                            /\ found[i].location = PlaceOf(infos[i])
                            /\ found[i].message[Len(found[i].message)]
                                 = OtherPlaces(infos, i)
                 ELSE found = <<>>
        /\ \A i \in DOMAIN su_out.collisions :
              <<su_out.collisions[i].key_type[2], su_out.collisions[i].key_value>>
                 \in DOMAIN keys

\* The scan is over on a file with a bucket of three occurrences and a bucket
\* of one: three findings, all for the shared value.
C11_Witness ==
    /\ SuParses /\ Ran("storage_collisions")
    /\ LET keys == StorageKeys(su_source).keys IN
         /\ \E key \in DOMAIN keys : Len(keys[key]) = 3
         /\ \E key \in DOMAIN keys : Len(keys[key]) = 1
    /\ Len(su_out.collisions) = 3

\* The storage calls of a source: the method calls named in STORAGE_OPS that
\* have a first argument.
StorageCalls(source) ==
    SelectSeq(NodesInSeq(source, None),
        LAMBDA o : o.n.k = "MethodCall" /\ o.n.id \in STORAGE_OPS /\ Len(o.n.kids) > 1)

\* A node that makes a key on its own: a constant, symbol_short!(..) or
\* Symbol::new(..).
MakesKey(n) ==
    \/ n.k = "Const"
    \/ n.k = "Macro" /\ n.id = "symbol_short"
    \/ n.k = "Call" /\ "segs" \in DOMAIN n /\ n.segs = <<"Symbol", "new">>

KeyMakers(nodes) == Len(SelectSeq(nodes, LAMBDA o : MakesKey(o.n)))

\* The source uses one key twice and no other: once in a storage call
\* under instance(), once in one under persistent(), the same key expression
\* in both, and no key is made anywhere but in these two arguments.
OneKeyInTwoScopes(source) ==
    LET calls == StorageCalls(source) IN
    /\ Len(calls) = 2
    /\ calls[1].n.kids[2] = calls[2].n.kids[2]
    /\ {parse_storage_type_from_expr(calls[i].n.kids[1]) : i \in 1..2}
         = {"instance", "persistent"}
    /\ KeyMakers(NodesInSeq(source, None))
         = 2 * KeyMakers(NodesIn(calls[1].n.kids[2], None))

\* C12: a key used once in an instance() storage call and once in a
\* persistent() storage call, and nowhere else, yields no finding of the
\* collision scan, however the key is written.
C12_ScopesNeverConflated ==
    SuParses /\ Ran("storage_collisions") /\ OneKeyInTwoScopes(su_source) =>
        su_out.collisions = <<>>

---------------------------------------------------------------------------
(* Ledger sizes *)

\* The #[contracttype] structs and enums of a source, in order.
LedgerItems(source) ==
    SelectSeq(source, LAMBDA it : it.k \in {"Struct", "Enum"} /\ has_contracttype(it.attrs))

\* The size LedgerSizeRule estimates for an item, as bytes.
EstimatedSize(it) ==
    BigNorm((IF it.k = "Struct" THEN estimate_struct_size(it)
             ELSE estimate_enum_size(it)).v)

\* The number a sequence of at most three bytes stands for.
SmallValue(b) == SeqSum([i \in DOMAIN b |-> b[i] * ByteBase ^ (i - 1)])

\* size * times >= n, for n below 2^24: a size of more than three bytes is
\* above every such n.
TimesAtLeast(size, times, n) == Len(size) > 3 \/ SmallValue(size) * times >= n

\* The severity of the finding the classification of size s against the
\* configuration c stands for, if any; half the limit is the limit halved
\* as a usize, rounded down.
ExpectedSeverity(s, c) ==
    IF \/ TimesAtLeast(s, 1, c.ledger_limit)
       \/ c.strict_mode /\ TimesAtLeast(s, 1, c.ledger_limit \div 2)
    THEN <<"Error">>
    ELSE IF TimesAtLeast(s, c.approaching_threshold[2],
                         c.ledger_limit * c.approaching_threshold[1])
    THEN <<"Warning">>
    ELSE <<>>

RECURSIVE ExpectedSeverities(_, _)
ExpectedSeverities(items, c) ==
    IF items = <<>> THEN <<>>
    ELSE ExpectedSeverity(EstimatedSize(Head(items)), c)
            \o ExpectedSeverities(Tail(items), c)

ContracttypeStructs(source) ==
    SelectSeq(source, LAMBDA it : it.k = "Struct" /\ has_contracttype(it.attrs))

\* C14: Analyzer::analyze_ledger_size returns a SizeWarning for exactly the
\* #[contracttype] structs whose estimated size is at or above ledger_limit,
\* or in strict mode at or above half of ledger_limit, and for no other
\* item; a struct of a single Bytes field against ledger_limit 50 yields one
\* warning with estimated_size 64.
C14_WarningIffAtOrAboveLimit ==
    SuParses /\ Ran("analyze_ledger_size") =>
        /\ [i \in DOMAIN su_out.size_warnings |-> su_out.size_warnings[i].struct_name]
             = Names(SelectSeq(ContracttypeStructs(su_source),
                  LAMBDA it :
                     LET size == analyzer_estimate_struct_size(it.kids) IN
                     \/ size >= su_config.ledger_limit
                     \/ su_config.strict_mode /\ size >= su_config.ledger_limit \div 2))
        /\ /\ su_config.ledger_limit = 50
           /\ Len(su_source) = 1
           /\ su_source[1].k = "Struct" /\ has_contracttype(su_source[1].attrs)
           /\ su_source[1].kids = <<TyPath("Bytes", <<>>)>>
           => /\ Len(su_out.size_warnings) = 1
              /\ su_out.size_warnings[1].estimated_size = 64

\* The sum of the weights estimate_type_size gives the types, as a natural
\* number of any size.
RECURSIVE SumOfWeights(_)
SumOfWeights(tys) ==
    IF tys = <<>> THEN <<>>
    ELSE BigAdd(estimate_type_size(Head(tys)).v, SumOfWeights(Tail(tys)))

\* The largest of the sums of the variants' field weights; 0 for no variant.
RECURSIVE LargestVariant(_)
LargestVariant(variants) ==
    IF variants = <<>> THEN <<>>
    ELSE LET h == SumOfWeights(Head(variants).kids)
             t == LargestVariant(Tail(variants))
         IN IF BigLess(h, t) THEN t ELSE h

\* The size the specification gives an item: the sum of the field weights
\* of a struct; the discriminant plus the largest variant of an enum.
SizeByRule(it) ==
    BigNorm(IF it.k = "Struct" THEN SumOfWeights(it.kids)
            ELSE BigAdd(Big(DISCRIMINANT_SIZE), LargestVariant(it.kids)))

\* C15: LedgerSizeRule estimates a #[contracttype] struct as the sum of its
\* field weights and a #[contracttype] enum as 4 bytes plus the largest,
\* over its variants, of the sums of the variant's field weights (4 bytes
\* for unit variants only); the size a finding reports is that size.
C15_StructSumEnumMax ==
    SuParses /\ Ran("ledger_size") =>
        /\ \A i \in DOMAIN LedgerItems(su_source) :
              EstimatedSize(LedgerItems(su_source)[i])
                 = SizeByRule(LedgerItems(su_source)[i])
        /\ \A j \in DOMAIN ViolationsOf("ledger_size") :
              \E i \in DOMAIN LedgerItems(su_source) :
                 /\ ViolationsOf("ledger_size")[j].message[3]
                      = LedgerItems(su_source)[i].id
                 /\ BigNorm(ViolationsOf("ledger_size")[j].message[5])
                      = SizeByRule(LedgerItems(su_source)[i])

---------------------------------------------------------------------------
(* rules/mod.rs: RuleRegistry *)

\* A boxed rule: what name() returns and the fields of the rule.
BoxedRule(name, fields) == [name |-> name, fields |-> fields]

AuthGapRuleNew == BoxedRule("auth_gap", <<>>)
PanicDetectionRuleNew == BoxedRule("panic_detection", <<>>)
ArithmeticOverflowRuleNew == BoxedRule("arithmetic_overflow", <<>>)
UnhandledResultRuleNew == BoxedRule("unhandled_result", <<>>)

\* rule.check(source) through the Rule trait
rule_check(rule, source, overflow_checks) ==
    CASE rule.name = "auth_gap" -> Returned(AuthGapRule_check(source))
      [] rule.name = "ledger_size" ->
            LedgerSizeRule_check(rule.fields, source, overflow_checks)
      [] rule.name = "panic_detection" -> Returned(PanicDetectionRule_check(source))
      [] rule.name = "arithmetic_overflow" ->
            Returned(ArithmeticOverflowRule_check(source))
      [] rule.name = "unhandled_result" -> UnhandledResultRule_check(source)

\* RuleRegistry::new
RuleRegistryNew == <<>>

\* RuleRegistry::register
register(rules, rule) == Append(rules, rule)

\* collect() taking the violations of the next rule in front of the ones it has
collect_next_in_front(collected, found) == found \o collected

\* collect() taking the violations flat_map hands it from the next rule
collect_next(collected, found) == collected \o found

\* .iter().flat_map(|rule| rule.check(source)).collect() over rules; a panic
\* of a check ends the call.
RECURSIVE flat_map_check(_, _, _, _)
flat_map_check(rules, source, overflow_checks, collected) ==
    IF rules = <<>> THEN Returned(collected)
    ELSE LET r == rule_check(Head(rules), source, overflow_checks) IN
         IF r.panicked THEN [panicked |-> TRUE, violations |-> <<>>]
         ELSE flat_map_check(Tail(rules), source, overflow_checks,
                             collect_next(collected, r.violations))

\* RuleRegistry::run_all
run_all(rules, source, overflow_checks) ==
    flat_map_check(rules, source, overflow_checks, <<>>)

\* RuleRegistry::run_by_name
run_by_name(rules, source, name, overflow_checks) ==
    flat_map_check(SelectSeq(rules, LAMBDA rule : rule.name = name),
                   source, overflow_checks, <<>>)

\* RuleRegistry::available_rules
available_rules(rules) == [i \in DOMAIN rules |-> rules[i].name]

\* RuleRegistry::with_default_rules
with_default_rules ==
    register(register(register(register(register(RuleRegistryNew,
        AuthGapRuleNew),
        BoxedRule("ledger_size", LedgerSizeRuleNew)),
        PanicDetectionRuleNew),
        ArithmeticOverflowRuleNew),
        UnhandledResultRuleNew)

\* The number of register calls a caller makes on a registry.
RgMaxRegister == 2

\* The rules a caller registers: three of the kinds without fields, and
\* the ledger-size rule with a limit of 50.
RgRulePool ==
    {AuthGapRuleNew, ArithmeticOverflowRuleNew, UnhandledResultRuleNew,
     BoxedRule("ledger_size", with_limit(LedgerSizeRuleNew, 50))}

\* The names run_by_name is asked for: those of the rules, and one no rule has.
RgNames ==
    {"auth_gap", "ledger_size", "panic_detection", "unhandled_result",
     "storage_collision"}

\* Sources: one every function rule reports on, with a type the ledger-size
\* rule reports on under a limit of 50; one whose unhandled call makes
\* expr_to_string panic; one that does not parse.
RgSources ==
    {<<ItemStruct("Data", <<AttrContracttype>>, <<TyPath("Bytes", <<>>)>>),
       ItemImpl(<<ImplFn("f", "pub", FALSE,
                    <<SExpr(PSet), SExpr(PUnwrap), SExpr(PAdd), SExpr(PCall)>>),
                  ImplFn("g", "pub", FALSE, <<SExpr(PAdd), SMacro("panic")>>)>>)>>,
     <<ItemImpl(<<ImplFn("f", "pub", FALSE, <<SExpr(PSet), SExpr(PCallLong)>>)>>)>>,
     <<Garbage>>}

\* The result of a call, as it is kept: a panic is kept nowhere.
Kept(result) == <<result.violations>>

\* registry.register(rule): the results kept are of the rules as they were.
RegistryRegister ==
    /\ rg_pc = "ready"
    /\ rg_registered < RgMaxRegister
    /\ \E rule \in RgRulePool : rg_rules' = register(rg_rules, rule)
    /\ rg_registered' = rg_registered + 1
    /\ rg_prev' = IF rg_all # <<>> THEN rg_all ELSE rg_prev
    /\ rg_all' = <<>>
    /\ rg_by_name' = <<>>
    /\ rg_names' = <<>>
    /\ UNCHANGED <<rg_source, rg_pc>>
    /\ UNCHANGED notRg

\* registry.run_all(source)
RegistryRunAll ==
    /\ rg_pc = "ready"
    /\ rg_all = <<>>
    /\ \E overflow_checks \in BOOLEAN :
          LET result == run_all(rg_rules, rg_source, overflow_checks) IN
          IF result.panicked
          THEN rg_pc' = "aborted" /\ rg_all' = rg_all
          ELSE rg_pc' = rg_pc /\ rg_all' = Kept(result)
    /\ UNCHANGED <<rg_rules, rg_source, rg_registered, rg_prev, rg_by_name, rg_names>>
    /\ UNCHANGED notRg

\* registry.run_by_name(source, name)
RegistryRunByName ==
    /\ rg_pc = "ready"
    /\ rg_by_name = <<>>
    /\ \E name \in RgNames, overflow_checks \in BOOLEAN :
          LET result == run_by_name(rg_rules, rg_source, name, overflow_checks) IN
          IF result.panicked
          THEN rg_pc' = "aborted" /\ rg_by_name' = rg_by_name
          ELSE rg_pc' = rg_pc
               /\ rg_by_name' = <<[name |-> name, violations |-> result.violations]>>
    /\ UNCHANGED <<rg_rules, rg_source, rg_registered, rg_all, rg_prev, rg_names>>
    /\ UNCHANGED notRg

\* registry.available_rules()
RegistryAvailableRules ==
    /\ rg_pc = "ready"
    /\ rg_names = <<>>
    /\ rg_names' = <<available_rules(rg_rules)>>
    /\ UNCHANGED <<rg_rules, rg_source, rg_pc, rg_registered, rg_all, rg_prev,
                   rg_by_name>>
    /\ UNCHANGED notRg

\* A registry fresh from RuleRegistry::new or from with_default_rules (which
\* is what Default gives), and a source.
InitRegistry ==
    /\ rg_rules \in {RuleRegistryNew, with_default_rules}
    /\ rg_source \in RgSources
    /\ rg_pc = "ready"
    /\ rg_registered = 0
    /\ rg_all = <<>>
    /\ rg_prev = <<>>
    /\ rg_by_name = <<>>
    /\ rg_names = <<>>
    /\ ReIdle /\ SuIdle /\ SmIdle /\ AnIdle /\ VdIdle /\ GsIdle /\ CbIdle /\ GdIdle /\ TkIdle /\ RwIdle

NextRegistry ==
    \/ RegistryRegister
    \/ RegistryRunAll
    \/ RegistryRunByName
    \/ RegistryAvailableRules

SpecRegistry == InitRegistry /\ [][NextRegistry]_vars

\* The violations each rule of the registry finds in the source, one after
\* the other in the order of registration, each rule asked on its own.
RECURSIVE FindingsInOrder(_, _)
FindingsInOrder(rules, source) ==
    IF rules = <<>> THEN <<>>
    ELSE FindingsInOrder(SubSeq(rules, 1, Len(rules) - 1), source)
            \o rule_check(rules[Len(rules)], source, FALSE).violations

IsPrefix(a, b) == Len(a) <= Len(b) /\ a = SubSeq(b, 1, Len(a))

\* C16: run_all returns the findings of every registered rule, one rule
\* after the other in registration order; run_by_name(name) returns the part
\* of it the rule of that name produced, nothing when no rule has the name;
\* after a further register the findings of the earlier rules come first
\* and are the same as before.
C16_RunAllInRegistrationOrder ==
    /\ rg_all # <<>> => rg_all[1] = FindingsInOrder(rg_rules, rg_source)
    /\ rg_all # <<>> /\ rg_by_name # <<>> =>
          rg_by_name[1].violations
             = SelectSeq(rg_all[1], LAMBDA v : v.rule_name = rg_by_name[1].name)
    /\ rg_by_name # <<>>
          /\ (\A i \in DOMAIN rg_rules : rg_rules[i].name # rg_by_name[1].name)
          => rg_by_name[1].violations = <<>>
    /\ rg_all # <<>> /\ rg_prev # <<>> => IsPrefix(rg_prev[1], rg_all[1])

\* run_all has returned findings of three rules, more than one rule has been
\* registered since an earlier run_all that had findings too, and
\* run_by_name has returned a part of the output that is neither empty nor
\* the whole.
C16_Witness ==
    /\ rg_all # <<>> /\ rg_prev # <<>> /\ rg_by_name # <<>>
    /\ rg_registered = RgMaxRegister
    /\ rg_prev[1] # <<>> /\ rg_prev[1] # rg_all[1]
    /\ Cardinality({rg_all[1][i].rule_name : i \in DOMAIN rg_all[1]}) >= 3
    /\ rg_by_name[1].violations # <<>>
    /\ rg_by_name[1].violations # rg_all[1]

\* What available_rules returns on a registry fresh from with_default_rules.
DefaultNamesListed == rg_names # <<>> /\ rg_registered = 0 /\ rg_rules # RuleRegistryNew

\* C17: the default registry holds the six built-in detectors in one fixed
\* order: available_rules() lists six distinct names, the same ones in the
\* same order every time.
C17_SixDefaultRules ==
    DefaultNamesListed =>
        /\ Len(rg_names[1]) = 6
        /\ \A i, j \in DOMAIN rg_names[1] : rg_names[1][i] = rg_names[1][j] => i = j
        /\ rg_names[1] = available_rules(with_default_rules)

---------------------------------------------------------------------------
(* smt.rs: SmtVerifier and run_strategy *)

\* u64::MAX, as bytes
U64Max == [i \in 1..UsizeBytes |-> ByteBase - 1]
\* 5_000_000_000, as bytes
BoundedDomainMax == <<0, 242, 5, 42, 1>>
\* 10_000, as bytes
SmallDomainMax == Big(10000)

\* What is asserted on a solver: v >= c, v <= c, and a + b > c.
AssertGe(v, c) == [rel |-> "ge", v |-> v, c |-> c]
AssertLe(v, c) == [rel |-> "le", v |-> v, c |-> c]
AssertSumGt(c) == [rel |-> "sum_gt", v |-> "a+b", c |-> c]

\* Whether integers a and b exist that meet every assertion: each variable
\* has room between its bounds, and the largest a + b the bounds allow is
\* above what the sum has to exceed.
Satisfiable(assertions) ==
    LET among(rel, v) ==
            {assertions[i].c : i \in {j \in DOMAIN assertions :
                                        assertions[j].rel = rel /\ assertions[j].v = v}}
        room(v) == \A u \in among("le", v), l \in among("ge", v) : BigGe(u, l)
        top(v) == CHOOSE u \in among("le", v) : \A w \in among("le", v) : BigGe(w, u)
    IN /\ room("a") /\ room("b")
       /\ \A c \in among("sum_gt", "a+b") :
             \/ among("le", "a") = {} \/ among("le", "b") = {}
             \/ BigLess(c, BigAdd(top("a"), top("b")))

\* solver.check(): the answer to the assertions, or Unknown when the solver
\* gives up (a timeout or a resource limit set on the caller's context).
SolverCheck(assertions) ==
    {IF Satisfiable(assertions) THEN "Sat" ELSE "Unsat", "Unknown"}

SmtInvariantIssue(function_name, description, location) ==
    [function_name |-> function_name, description |-> description,
     location |-> location]

\* SmtVerifier::verify_addition_overflow: what is asserted
VerifyAssertions ==
    <<AssertGe("a", <<>>), AssertLe("a", U64Max),
      AssertGe("b", <<>>), AssertLe("b", U64Max),
      AssertSumGt(U64Max)>>

\* SmtVerifier::verify_addition_overflow: what it returns on an answer
verify_addition_overflow(answer, fn_name, location) ==
    IF answer = "Sat"
    THEN Some(SmtInvariantIssue(fn_name,
            "SMT Solver (Z3) proved that this addition can overflow u64 bounds.",
            location))
    ELSE None

SmtProofStrategy ==
    {"UnconstrainedOverflow", "BoundedDomainOverflow", "SmallDomainOverflow"}

\* run_strategy with every strategy bounded by u64::MAX
strategy_max_all_u64(strategy) == U64Max

\* run_strategy: the upper bound the strategy puts on a and b
strategy_max(strategy) ==
    CASE strategy = "UnconstrainedOverflow" -> U64Max
      [] strategy = "BoundedDomainOverflow" -> BoundedDomainMax
      [] strategy = "SmallDomainOverflow" -> SmallDomainMax

\* run_strategy: what is asserted
StrategyAssertions(strategy) ==
    <<AssertGe("a", <<>>), AssertGe("b", <<>>),
      AssertLe("a", strategy_max(strategy)), AssertLe("b", strategy_max(strategy)),
      AssertSumGt(U64Max)>>

\* The number of calls made on the prover.
SmMaxCalls == 2

SmFnNames == {"deposit", "mint"}

\* verifier.verify_addition_overflow(fn_name, location)
VerifyAdditionOverflow ==
    /\ sm_pc = "ready"
    /\ Len(sm_calls) < SmMaxCalls
    /\ \E fn_name \in SmFnNames, answer \in SolverCheck(VerifyAssertions) :
          sm_calls' = Append(sm_calls,
              [op |-> "verify_addition_overflow", fn_name |-> fn_name,
               location |-> "src/lib.rs", strategy |-> "UnconstrainedOverflow",
               max |-> U64Max, answer |-> answer,
               returned |-> verify_addition_overflow(answer, fn_name, "src/lib.rs")])
    /\ UNCHANGED sm_pc
    /\ UNCHANGED notSm

\* run_strategy(ctx, strategy): returns the answer of the solver
RunStrategy ==
    /\ sm_pc = "ready"
    /\ Len(sm_calls) < SmMaxCalls
    /\ \E strategy \in SmtProofStrategy :
       \E answer \in SolverCheck(StrategyAssertions(strategy)) :
          sm_calls' = Append(sm_calls,
              [op |-> "run_strategy", fn_name |-> "", location |-> "",
               strategy |-> strategy, max |-> strategy_max(strategy),
               answer |-> answer, returned |-> answer])
    /\ UNCHANGED sm_pc
    /\ UNCHANGED notSm

InitSmt ==
    /\ sm_pc = "ready"
    /\ sm_calls = <<>>
    /\ ReIdle /\ SuIdle /\ RgIdle /\ AnIdle /\ VdIdle /\ GsIdle /\ CbIdle /\ GdIdle /\ TkIdle /\ RwIdle

NextSmt == VerifyAdditionOverflow \/ RunStrategy

SpecSmt == InitSmt /\ [][NextSmt]_vars

\* C18: what verify_addition_overflow returns when the solver answers
\* Unknown differs from what it returns, for the same function and location,
\* when the solver answers Unsat.
C18_UnknownDiffersFromUnsat ==
    \A i \in DOMAIN sm_calls :
        LET c == sm_calls[i] IN
        c.op = "verify_addition_overflow" /\ c.answer = "Unknown" =>
            c.returned # verify_addition_overflow("Unsat", c.fn_name, c.location)

\* max <= MAX/2 - 1, that is 2 * (max + 1) <= MAX
AtMostHalfLessOne(max) == BigGe(U64Max, BigMul(Big(2), BigAdd(max, Big(1))))

\* C19: for a + b <= MAX with a and b only within 0..MAX, a + b > MAX is
\* satisfiable and a solver that answers reports the overflow; the
\* bounded-domain and small-domain strategies bound a and b by no more than
\* MAX/2 - 1, and with such a bound a + b > MAX is not satisfiable and no
\* overflow is reported.
C19_OverflowIffBoundsAllowIt ==
    \A i \in DOMAIN sm_calls :
        LET c == sm_calls[i] IN
        /\ c.strategy # "UnconstrainedOverflow" => AtMostHalfLessOne(c.max)
        /\ IF AtMostHalfLessOne(c.max)
           THEN c.answer # "Sat" /\ c.returned # "Sat"
           ELSE /\ c.max = U64Max
                /\ c.answer # "Unsat"
                /\ c.answer = "Sat" =>
                      c.returned = IF c.op = "run_strategy" THEN "Sat"
                                   ELSE Some(SmtInvariantIssue(c.fn_name,
                                          "SMT Solver (Z3) proved that this addition can overflow u64 bounds.",
                                          c.location))

\* The solver has answered a call of verify_addition_overflow with Sat and
\* an issue has come back, and it has answered the bounded-domain strategy
\* with Unsat.
C19_Witness ==
    /\ \E i \in DOMAIN sm_calls :
          /\ sm_calls[i].op = "verify_addition_overflow"
          /\ sm_calls[i].answer = "Sat" /\ sm_calls[i].returned # None
    /\ \E i \in DOMAIN sm_calls :
          /\ sm_calls[i].strategy = "BoundedDomainOverflow"
          /\ sm_calls[i].answer = "Unsat"

---------------------------------------------------------------------------
(* sanctifier-cli commands/analyze.rs: exec *)

\* has_critical with the auth gaps alone
has_critical_of_auth_gaps(found) == found.auth_gaps # <<>>

\* let has_critical = ..
has_critical(found) ==
    \/ found.auth_gaps # <<>>
    \/ \E i \in DOMAIN found.panic_issues : found.panic_issues[i].issue_type = "panic!"

\* let has_high = ..
has_high(found) ==
    \/ found.arithmetic_issues # <<>>
    \/ found.panic_issues # <<>>
    \/ \E i \in DOMAIN found.size_warnings : found.size_warnings[i].level = "ExceedsLimit"

\* What the files of a project may have the detectors find.
AnFindings ==
    LET panic(t) == [function_name |-> "f", issue_type |-> t]
        size(l) == [struct_name |-> "Data", level |-> l]
    IN [collisions : {<<>>, <<"KEY">>},
        auth_gaps : {<<>>, <<"f">>},
        panic_issues : {<<>>, <<panic("panic!")>>, <<panic("unwrap")>>,
                        <<panic("expect")>>, <<panic("unwrap"), panic("panic!")>>},
        arithmetic_issues : {<<>>, <<"+">>},
        size_warnings : {<<>>, <<size("ApproachingLimit")>>, <<size("ExceedsLimit")>>,
                         <<size("ApproachingLimit"), size("ExceedsLimit")>>}]

\* --format takes any string; everything but "json" is printed as text.
AnFormats == {"text", "json", "yaml"}

\* exec on a path that is no Soroban project: the error is printed and the
\* process exits with status 1.
ExecNotSorobanProject ==
    /\ an_pc = "start"
    /\ ~an_args.soroban_project
    /\ an_exit' = <<1>>
    /\ an_pc' = "exited"
    /\ UNCHANGED <<an_args, an_found, an_summary>>
    /\ UNCHANGED notAn

\* exec up to the webhook payload: the files are analyzed, the findings
\* gathered, has_critical and has_high computed.
ExecScan ==
    /\ an_pc = "start"
    /\ an_args.soroban_project
    /\ an_found' \in AnFindings
    /\ an_summary' = <<[has_critical |-> has_critical(an_found'),
                        has_high |-> has_high(an_found')]>>
    /\ an_pc' = "scanned"
    /\ UNCHANGED <<an_args, an_exit>>
    /\ UNCHANGED notAn

\* if is_json { .. }: the report is printed; exit(1) on a critical or high
\* finding, return Ok(()) otherwise.
ExecReportJson ==
    /\ an_pc = "scanned"
    /\ an_args.format = "json"
    /\ an_exit' = <<IF an_summary[1].has_critical \/ an_summary[1].has_high
                    THEN 1 ELSE 0>>
    /\ an_pc' = "exited"
    /\ UNCHANGED <<an_args, an_found, an_summary>>
    /\ UNCHANGED notAn

\* The text report: every section is printed and exec returns Ok(()).
ExecReportText ==
    /\ an_pc = "scanned"
    /\ an_args.format # "json"
    /\ an_exit' = <<0>>
    /\ an_pc' = "exited"
    /\ UNCHANGED <<an_args, an_found, an_summary>>
    /\ UNCHANGED notAn

InitAnalyze ==
    /\ an_pc = "start"
    /\ an_args \in [format : AnFormats, soroban_project : BOOLEAN]
    /\ an_found = <<>>
    /\ an_summary = <<>>
    /\ an_exit = <<>>
    /\ ReIdle /\ SuIdle /\ RgIdle /\ SmIdle /\ VdIdle /\ GsIdle /\ CbIdle /\ GdIdle /\ TkIdle /\ RwIdle

NextAnalyze ==
    \/ ExecNotSorobanProject
    \/ ExecScan
    \/ ExecReportJson
    \/ ExecReportText

SpecAnalyze == InitAnalyze /\ [][NextAnalyze]_vars

\* The kinds of findings gathered, read off the lists.
AnyAuthGap == Len(an_found.auth_gaps) > 0
AnyPanicMacro ==
    Len(SelectSeq(an_found.panic_issues, LAMBDA p : p.issue_type = "panic!")) > 0
AnyPanicKind == Len(an_found.panic_issues) > 0
AnyArithmetic == Len(an_found.arithmetic_issues) > 0
AnyExceedsLimit ==
    Len(SelectSeq(an_found.size_warnings, LAMBDA w : w.level = "ExceedsLimit")) > 0

\* has_critical and has_high are what the claim says they are.
SummaryAsClaimed ==
    /\ an_summary[1].has_critical <=> (AnyAuthGap \/ AnyPanicMacro)
    /\ an_summary[1].has_high <=> (AnyArithmetic \/ AnyPanicKind \/ AnyExceedsLimit)

\* C20 as stated: has_critical is true iff there is an auth-gap finding or a
\* panic! finding, has_high iff there is an arithmetic finding, a panic-kind
\* finding or an ExceedsLimit size warning, and whenever one of the two is
\* true the command ends with a non-zero exit status.
C20_CriticalOrHighExitsNonZero ==
    an_summary # <<>> =>
        /\ SummaryAsClaimed
        /\ an_exit # <<>> /\ (an_summary[1].has_critical \/ an_summary[1].has_high)
              => an_exit[1] # 0

\* C20, amended: has_critical and has_high are as stated; when one of them is
\* true the command ends with a non-zero exit status if the format is json,
\* and with status 0 for every other format.
C20_CriticalOrHighExitsNonZeroInJson ==
    an_summary # <<>> =>
        /\ SummaryAsClaimed
        /\ an_exit # <<>> /\ (an_summary[1].has_critical \/ an_summary[1].has_high)
              => (an_exit[1] # 0 <=> an_args.format = "json")

\* A run in text format has ended with status 0 on a panic! finding (which is
\* critical and high) and nothing else.
C20_Witness ==
    /\ an_exit = <<0>>
    /\ an_args.format = "text"
    /\ an_summary # <<>> /\ an_summary[1].has_critical /\ an_summary[1].has_high
    /\ AnyPanicMacro /\ ~AnyAuthGap /\ ~AnyArithmetic /\ ~AnyExceedsLimit

---------------------------------------------------------------------------
(* sanctifier-cli vulndb.rs: VulnDatabase::scan *)

\* A source text is a sequence of one-character strings (all ASCII, so byte
\* offsets are character offsets).  Offsets are 0-based as in Rust: the
\* character at offset i is source[i + 1].
NL == "\n"
IsWhitespace(c) == c \in {" ", NL, "\t", "\r"}

\* The patterns used here are a signature of literal characters with at most
\* one greedy \s* among them; "invalid" stands for a pattern Regex::new
\* rejects, such as "(".
Lit(c) == [k |-> "lit", c |-> c]
WsStar == [k |-> "ws*"]
InvalidPattern == "invalid"

\* Regex::new(&vuln.pattern)
RegexNew(pattern) == IF pattern = InvalidPattern THEN <<>> ELSE <<pattern>>

\* The offsets at which a match of atoms[k..] beginning at offset i may end.
RECURSIVE MatchEnds(_, _, _, _)
MatchEnds(atoms, k, source, i) ==
    IF k > Len(atoms) THEN {i}
    ELSE IF atoms[k].k = "lit"
         THEN IF i < Len(source) /\ source[i + 1] = atoms[k].c
              THEN MatchEnds(atoms, k + 1, source, i + 1)
              ELSE {}
         ELSE UNION {MatchEnds(atoms, k + 1, source, j) :
                        j \in {j \in i..Len(source) :
                                 \A h \in (i + 1)..j : IsWhitespace(source[h])}}

\* The match the regex engine reports at a start offset: \s* is greedy and
\* what follows it has a fixed length, so the preferred match is the longest.
MatchAt(re, source, i) ==
    LET ends == MatchEnds(re, 1, source, i)
    IN IF ends = {} THEN <<>>
       ELSE <<[start |-> i, end |-> CHOOSE e \in ends : \A f \in ends : f <= e]>>

\* re.find_iter(source): the leftmost match from pos on, then the next one
\* after its end.  (No pattern used here matches the empty string.)
RECURSIVE find_iter(_, _, _)
find_iter(re, source, pos) ==
    LET starts == {i \in pos..Len(source) : MatchAt(re, source, i) # <<>>}
    IN IF starts = {} THEN <<>>
       ELSE LET i == CHOOSE i \in starts : \A j \in starts : i <= j
                mat == MatchAt(re, source, i)[1]
            IN <<mat>> \o find_iter(re, source, mat.end)

\* source[..n].matches('\n').count()
CountNewlines(source, n) == Cardinality({h \in 1..n : source[h] = NL})

\* source[..n].rfind('\n'): the offset of the last line break before n
Rfind(source, n) ==
    LET at == {h \in 0..(n - 1) : source[h + 1] = NL}
    IN IF at = {} THEN <<>> ELSE <<CHOOSE h \in at : \A g \in at : g <= h>>

\* source[n..].find('\n'): the distance from n to the next line break
Find(source, n) ==
    LET at == {h \in n..(Len(source) - 1) : source[h + 1] = NL}
    IN IF at = {} THEN <<>> ELSE <<(CHOOSE h \in at : \A g \in at : h <= g) - n>>

\* str::trim
Trim(text) ==
    LET keep == {h \in 1..Len(text) : ~IsWhitespace(text[h])}
    IN IF keep = {} THEN <<>>
       ELSE SubSeq(text, CHOOSE h \in keep : \A g \in keep : h <= g,
                         CHOOSE h \in keep : \A g \in keep : g <= h)

\* let line = ..
match_line(source, mat) == CountNewlines(source, mat.start) + 1

\* let line_start = ..
line_start(source, mat) ==
    LET p == Rfind(source, mat.start) IN IF p = <<>> THEN 0 ELSE p[1] + 1

\* let line_end = ..
line_end(source, mat) ==
    LET p == Find(source, mat.end) IN IF p = <<>> THEN Len(source) ELSE mat.end + p[1]

\* let snippet = source[line_start..line_end].trim().to_string()
match_snippet(source, mat) ==
    Trim(SubSeq(source, line_start(source, mat) + 1, line_end(source, mat)))

\* The body of for mat in re.find_iter(source)
VulnMatchOf(vuln, source, file_name, mat) ==
    [vuln_id |-> vuln.id, file |-> file_name,
     line |-> match_line(source, mat), snippet |-> match_snippet(source, mat)]

\* The spans matched, entry after entry; an entry whose pattern does not
\* compile is skipped.
RECURSIVE ScanSpans(_, _)
ScanSpans(vulnerabilities, source) ==
    IF vulnerabilities = <<>> THEN <<>>
    ELSE LET vuln == Head(vulnerabilities)
             re == RegexNew(vuln.pattern)
             here == IF re = <<>> THEN <<>>
                     ELSE LET found == find_iter(re[1], source, 0)
                          IN [i \in 1..Len(found) |-> [vuln |-> vuln, mat |-> found[i]]]
         IN here \o ScanSpans(Tail(vulnerabilities), source)

\* VulnDatabase::scan
scan(db, source, file_name) ==
    LET spans == ScanSpans(db, source)
    IN [i \in 1..Len(spans) |-> VulnMatchOf(spans[i].vuln, source, file_name, spans[i].mat)]

\* The longest source text scanned.
VdMaxLen == 4

VdAlphabet == {"a", "b", " ", NL}

VdSources == UNION {[1..n -> VdAlphabet] : n \in 0..VdMaxLen}

\* Signatures: a, a\s*b, b\s* and one that does not compile.
VdEntries ==
    [a |-> [id |-> "V-A", pattern |-> <<Lit("a")>>],
     ab |-> [id |-> "V-AB", pattern |-> <<Lit("a"), WsStar, Lit("b")>>],
     bws |-> [id |-> "V-BWS", pattern |-> <<Lit("b"), WsStar>>],
     bad |-> [id |-> "V-BAD", pattern |-> InvalidPattern]]

VdDatabases ==
    {<<>>, <<VdEntries.a>>, <<VdEntries.ab>>, <<VdEntries.bws>>,
     <<VdEntries.bad, VdEntries.a>>, <<VdEntries.ab, VdEntries.a>>}

\* One call of scan.
VulnDbScan ==
    /\ vd_pc = "start"
    /\ vd_matches' = scan(vd_db, vd_source, "lib.rs")
    /\ vd_spans' = [i \in 1..Len(ScanSpans(vd_db, vd_source)) |->
                       ScanSpans(vd_db, vd_source)[i].mat]
    /\ vd_pc' = "scanned"
    /\ UNCHANGED <<vd_db, vd_source>>
    /\ UNCHANGED notVd

InitVulnDb ==
    /\ vd_pc = "start"
    /\ vd_db \in VdDatabases
    /\ vd_source \in VdSources
    /\ vd_matches = <<>>
    /\ vd_spans = <<>>
    /\ ReIdle /\ SuIdle /\ RgIdle /\ SmIdle /\ AnIdle /\ GsIdle /\ CbIdle /\ GdIdle /\ TkIdle /\ RwIdle

NextVulnDb == VulnDbScan

SpecVulnDb == InitVulnDb /\ [][NextVulnDb]_vars

\* The lines of a text: what stands between its line breaks.
RECURSIVE SourceLines(_)
SourceLines(text) ==
    LET at == {h \in 1..Len(text) : text[h] = NL}
    IN IF at = {} THEN <<text>>
       ELSE LET h == CHOOSE h \in at : \A g \in at : h <= g
            IN <<SubSeq(text, 1, h - 1)>> \o SourceLines(SubSeq(text, h + 1, Len(text)))

\* The offset at which line n of a text begins.
LineOffset(text, n) ==
    LET lines == SourceLines(text)
        RECURSIVE upto(_)
        upto(k) == IF k = 0 THEN 0 ELSE upto(k - 1) + Len(lines[k]) + 1
    IN upto(n - 1)

\* The 1-based number of the line holding the character at an offset.
LineHolding(text, offset) ==
    LET lines == SourceLines(text)
    IN CHOOSE n \in 1..Len(lines) :
          /\ LineOffset(text, n) <= offset
          /\ offset <= LineOffset(text, n) + Len(lines[n])

\* C21: for every match scan reports, line is the 1-based number of the
\* source line on which the match starts, and snippet is the full text of
\* that one line, trimmed, with no line break in it.
C21_LineAndSnippetOfTheMatchLine ==
    vd_pc = "scanned" =>
        \A i \in 1..Len(vd_matches) :
            /\ vd_matches[i].line = LineHolding(vd_source, vd_spans[i].start)
            /\ vd_matches[i].line = 1 + CountNewlines(vd_source, vd_spans[i].start)
            /\ vd_matches[i].snippet = Trim(SourceLines(vd_source)[vd_matches[i].line])
            /\ \A h \in 1..Len(vd_matches[i].snippet) : vd_matches[i].snippet[h] # NL

---------------------------------------------------------------------------
(* sanctifier-core gas_report.rs: GasTier *)

\* from_instructions with strict comparisons
from_instructions_strictly_above(n) ==
    IF n > 100000 THEN "High" ELSE IF n > 10000 THEN "Medium" ELSE "Low"

\* GasTier::from_instructions
from_instructions(n) ==
    IF n >= 100000 THEN "High"
    ELSE IF n >= 10000 THEN "Medium"
    ELSE "Low"

\* The number of calls made in one run.
GsMaxCalls == 2

\* Instruction counts at and around the two thresholds, and far from them.
GsCounts ==
    {0, 1, 5000, 9998, 9999, 10000, 10001, 50000, 99998, 99999, 100000, 100001,
     1000000, 2147483647}

\* One call of from_instructions.
GasTierFromInstructions ==
    /\ gs_pc = "ready"
    /\ Len(gs_calls) < GsMaxCalls
    /\ \E n \in GsCounts :
          gs_calls' = Append(gs_calls, [n |-> n, tier |-> from_instructions(n)])
    /\ UNCHANGED gs_pc
    /\ UNCHANGED notGs

InitGas ==
    /\ gs_pc = "ready"
    /\ gs_calls = <<>>
    /\ ReIdle /\ SuIdle /\ RgIdle /\ SmIdle /\ AnIdle /\ VdIdle /\ CbIdle /\ GdIdle /\ TkIdle /\ RwIdle

NextGas == GasTierFromInstructions

SpecGas == InitGas /\ [][NextGas]_vars

\* The tiers from the lowest to the highest.
GasTiers == <<"Low", "Medium", "High">>

\* The place of a tier in that order.
TierRank(tier) == CHOOSE r \in 1..3 : GasTiers[r] = tier

\* C22: from_instructions(n) is Low for n < 10 000, Medium for
\* 10 000 <= n <= 99 999 and High for n >= 100 000: every count has exactly
\* one tier, and a larger count never has a lower tier.
C22_TiersPartitionAndNeverDecrease ==
    /\ \A i \in 1..Len(gs_calls) :
          LET n == gs_calls[i].n
              tier == gs_calls[i].tier
          IN /\ tier = "Low" <=> n < 10000
             /\ tier = "Medium" <=> (10000 <= n /\ n <= 99999)
             /\ tier = "High" <=> n >= 100000
             /\ Cardinality({r \in 1..3 : GasTiers[r] = tier}) = 1
    /\ \A i, j \in 1..Len(gs_calls) :
          gs_calls[i].n <= gs_calls[j].n
              => TierRank(gs_calls[i].tier) <= TierRank(gs_calls[j].tier)

\* Two calls were made at the two sides of a threshold: 99 999 is Medium and
\* 100 000 is High.
C22_Witness ==
    /\ Len(gs_calls) = 2
    /\ gs_calls[1] = [n |-> 99999, tier |-> "Medium"]
    /\ gs_calls[2] = [n |-> 100000, tier |-> "High"]

---------------------------------------------------------------------------
(* my-contract: state.rs, guards.rs, circuit_breaker.rs, lib.rs *)

\* a - b for a >= b
RECURSIVE BigSubB(_, _, _)
BigSubB(a, b, borrow) ==
    IF a = <<>> THEN <<>>
    ELSE LET y == (IF b = <<>> THEN 0 ELSE Head(b)) + borrow
         IN <<(Head(a) + ByteBase - y) % ByteBase>>
                \o BigSubB(Tail(a), IF b = <<>> THEN <<>> ELSE Tail(b),
                           IF Head(a) < y THEN 1 ELSE 0)
BigSub(a, b) == BigNorm(BigSubB(a, b, 0))

\* u64::checked_add
checked_add(a, b) ==
    IF FitsUsize(BigAdd(a, b)) THEN Some(BigAdd(a, b)) ELSE None

\* ContractState::new
ContractStateNew(admin) ==
    [admin |-> admin, shutdown |-> "Active", balance |-> Big(0), data |-> <<>>]

\* enum GuardError; a Result<(), GuardError> is "Ok" or one of these
GuardError == {"ContractPaused", "EmergencyShutdown", "Unauthorized"}

\* require_active blind to the emergency
require_active_paused_only(state) ==
    IF state.shutdown = "Active" THEN "Ok" ELSE "ContractPaused"

\* guards::require_active
require_active(state) ==
    CASE state.shutdown = "Active" -> "Ok"
      [] state.shutdown = "Paused" -> "ContractPaused"
      [] state.shutdown = "Emergency" -> "EmergencyShutdown"

\* require_admin letting every caller through
require_admin_anyone(state, caller) == "Ok"

\* guards::require_admin
require_admin(state, caller) ==
    IF state.admin = caller THEN "Ok" ELSE "Unauthorized"

\* An operation returns the state it leaves and its result.
Leaves(state, result) == [state |-> state, result |-> result]

\* deposit storing the wrapped sum before the overflow is reported
deposit_store_then_check(state, caller, amount) ==
    IF require_active(state) # "Ok" THEN Leaves(state, require_active(state))
    ELSE IF checked_add(state.balance, amount) = None
         THEN Leaves([state EXCEPT !.balance = WrapUsize(BigAdd(state.balance, amount))],
                       "Unauthorized")
         ELSE Leaves([state EXCEPT !.balance = BigAdd(state.balance, amount)], "Ok")

\* lib.rs deposit
deposit(state, caller, amount) ==
    IF require_active(state) # "Ok" THEN Leaves(state, require_active(state))
    ELSE LET sum == checked_add(state.balance, amount)
         IN IF sum = None THEN Leaves(state, "Unauthorized")
            ELSE Leaves([state EXCEPT !.balance = sum[1]], "Ok")

\* lib.rs withdraw
withdraw(state, caller, amount) ==
    IF require_active(state) # "Ok" THEN Leaves(state, require_active(state))
    ELSE IF BigLess(state.balance, amount) THEN Leaves(state, "Unauthorized")
    ELSE Leaves([state EXCEPT !.balance = BigSub(state.balance, amount)], "Ok")

\* lib.rs update_data
update_data(state, caller, new_data) ==
    IF require_active(state) # "Ok" THEN Leaves(state, require_active(state))
    ELSE Leaves([state EXCEPT !.data = new_data], "Ok")

\* lib.rs get_balance
get_balance(state) == state.balance

\* circuit_breaker::pause
pause(state, caller) ==
    IF require_admin(state, caller) # "Ok" THEN Leaves(state, require_admin(state, caller))
    ELSE IF require_active(state) # "Ok" THEN Leaves(state, require_active(state))
    ELSE Leaves([state EXCEPT !.shutdown = "Paused"], "Ok")

\* circuit_breaker::emergency_shutdown
emergency_shutdown(state, caller) ==
    IF require_admin(state, caller) # "Ok" THEN Leaves(state, require_admin(state, caller))
    ELSE Leaves([state EXCEPT !.shutdown = "Emergency"], "Ok")

\* unpause that reopens the contract from any state
unpause_from_any(state, caller) ==
    IF require_admin(state, caller) # "Ok" THEN Leaves(state, require_admin(state, caller))
    ELSE Leaves([state EXCEPT !.shutdown = "Active"], "Ok")

\* circuit_breaker::unpause
unpause(state, caller) ==
    IF require_admin(state, caller) # "Ok" THEN Leaves(state, require_admin(state, caller))
    ELSE CASE state.shutdown = "Paused" -> Leaves([state EXCEPT !.shutdown = "Active"], "Ok")
           [] state.shutdown = "Emergency" -> Leaves(state, "EmergencyShutdown")
           [] state.shutdown = "Active" -> Leaves(state, "Ok")

\* The number of calls made on one state.
CbMaxCalls == 3

\* const ADMIN, const USER of the tests
CbCallers == {"ADMIN", "USER"}

\* Amounts: 1 and u64::MAX.
CbAmounts == {Big(1), U64Max}

CbData == {<<>>, <<1, 2, 3>>}

\* A call is made: the state it leaves is stored and the call is logged.
CbCall(op, caller, arg, returned) ==
    /\ cb_pc = "ready"
    /\ Len(cb_log) < CbMaxCalls
    /\ cb_state' = returned.state
    /\ cb_log' = Append(cb_log, [op |-> op, caller |-> caller, arg |-> arg,
                                 before |-> cb_state, result |-> returned.result])
    /\ UNCHANGED cb_pc
    /\ UNCHANGED notCb

Deposit ==
    \E caller \in CbCallers, amount \in CbAmounts :
        CbCall("deposit", caller, amount, deposit(cb_state, caller, amount))

Withdraw ==
    \E caller \in CbCallers, amount \in CbAmounts :
        CbCall("withdraw", caller, amount, withdraw(cb_state, caller, amount))

UpdateData ==
    \E caller \in CbCallers, new_data \in CbData :
        CbCall("update_data", caller, new_data, update_data(cb_state, caller, new_data))

\* get_balance takes the state by shared reference; its result is the balance.
GetBalance ==
    CbCall("get_balance", "", <<>>, Leaves(cb_state, get_balance(cb_state)))

Pause ==
    \E caller \in CbCallers : CbCall("pause", caller, <<>>, pause(cb_state, caller))

EmergencyShutdown ==
    \E caller \in CbCallers :
        CbCall("emergency_shutdown", caller, <<>>, emergency_shutdown(cb_state, caller))

Unpause ==
    \E caller \in CbCallers : CbCall("unpause", caller, <<>>, unpause(cb_state, caller))

InitContract ==
    /\ cb_pc = "ready"
    /\ \E admin \in CbCallers : cb_state = ContractStateNew(admin)
    /\ cb_log = <<>>
    /\ ReIdle /\ SuIdle /\ RgIdle /\ SmIdle /\ AnIdle /\ VdIdle /\ GsIdle /\ GdIdle /\ TkIdle /\ RwIdle

NextContract ==
    \/ Deposit
    \/ Withdraw
    \/ UpdateData
    \/ GetBalance
    \/ Pause
    \/ EmergencyShutdown
    \/ Unpause

SpecContract == InitContract /\ [][NextContract]_vars

\* The state a logged call left: the state before the next call, or the
\* current state for the last call.
CbAfter(i) == IF i < Len(cb_log) THEN cb_log[i + 1].before ELSE cb_state

CbMutations == {"deposit", "withdraw", "update_data"}
CbSwitches == {"pause", "unpause", "emergency_shutdown"}

\* C23: while Paused, deposit, withdraw and update_data return
\* Err(ContractPaused), and while in Emergency Err(EmergencyShutdown), for
\* every caller and argument; balance and data stay unchanged and
\* get_balance still returns the current balance.
C23_MutationsBlockedWhileShutDown ==
    \A i \in 1..Len(cb_log) :
        LET call == cb_log[i] IN
        call.before.shutdown # "Active" =>
            /\ call.op \in CbMutations =>
                  /\ call.before.shutdown = "Paused" => call.result = "ContractPaused"
                  /\ call.before.shutdown = "Emergency" => call.result = "EmergencyShutdown"
            /\ CbAfter(i).balance = call.before.balance
            /\ CbAfter(i).data = call.before.data
            /\ call.op = "get_balance" => call.result = call.before.balance

\* A deposit went through, the contract was paused, and a withdraw of the
\* deposited amount was refused with the balance still there.
C23_Witness ==
    /\ Len(cb_log) = 3
    /\ cb_log[1].op = "deposit" /\ cb_log[1].result = "Ok"
    /\ cb_log[2].op = "pause" /\ cb_log[2].result = "Ok"
    /\ cb_log[3].op = "withdraw" /\ cb_log[3].arg = cb_log[1].arg
    /\ cb_log[3].result = "ContractPaused"
    /\ cb_state.shutdown = "Paused"
    /\ cb_state.balance = cb_log[1].arg

\* C24: once the shutdown state is Emergency it stays Emergency whatever is
\* called by whomever; the admin's unpause in Emergency returns
\* Err(EmergencyShutdown), and the admin's unpause in Paused returns the
\* contract to Active, where a deposit that fits succeeds.
C24_EmergencyIsFinal ==
    \A i \in 1..Len(cb_log) :
        LET call == cb_log[i] IN
        /\ call.before.shutdown = "Emergency" => CbAfter(i).shutdown = "Emergency"
        /\ call.op = "unpause" /\ call.caller = call.before.admin =>
              /\ call.before.shutdown = "Emergency" => call.result = "EmergencyShutdown"
              /\ call.before.shutdown = "Paused" =>
                    call.result = "Ok" /\ CbAfter(i).shutdown = "Active"
        /\ /\ i > 1
           /\ cb_log[i - 1].op = "unpause"
           /\ cb_log[i - 1].result = "Ok"
           /\ call.op = "deposit"
           /\ FitsUsize(BigAdd(call.before.balance, call.arg))
           => call.result = "Ok"

\* The admin shut the contract down, then tried to unpause it and to pause
\* it: both were refused and the state is still Emergency.
C24_Witness ==
    /\ Len(cb_log) = 3
    /\ cb_log[1].op = "emergency_shutdown" /\ cb_log[1].result = "Ok"
    /\ cb_log[2].op = "unpause" /\ cb_log[2].caller = cb_state.admin
    /\ cb_log[2].result = "EmergencyShutdown"
    /\ cb_log[3].op = "pause" /\ cb_log[3].caller = cb_state.admin
    /\ cb_log[3].result = "EmergencyShutdown"
    /\ cb_state.shutdown = "Emergency"

\* C25: pause, unpause and emergency_shutdown by a caller other than
\* state.admin return Err(Unauthorized) and leave the shutdown state as it
\* was, in each of Active, Paused and Emergency.
C25_OnlyAdminSwitches ==
    \A i \in 1..Len(cb_log) :
        LET call == cb_log[i] IN
        call.op \in CbSwitches /\ call.caller # call.before.admin =>
            /\ call.result = "Unauthorized"
            /\ CbAfter(i).shutdown = call.before.shutdown

\* The admin paused the contract and another caller's unpause and
\* emergency_shutdown were refused.
C25_Witness ==
    /\ Len(cb_log) = 3
    /\ cb_log[1].op = "pause" /\ cb_log[1].result = "Ok"
    /\ cb_log[2].op = "unpause" /\ cb_log[2].caller # cb_state.admin
    /\ cb_log[2].result = "Unauthorized"
    /\ cb_log[3].op = "emergency_shutdown" /\ cb_log[3].caller # cb_state.admin
    /\ cb_log[3].result = "Unauthorized"
    /\ cb_state.shutdown = "Paused"

\* C29: every operation that returns Err leaves the whole ContractState
\* (admin, shutdown, balance, data) as it was before the call, a deposit
\* whose sum overflows u64 and a withdraw of more than the balance included;
\* the balance is always the exact sum of what went in less what went out.
C29_ErrLeavesStateUntouched ==
    /\ \A i \in 1..Len(cb_log) :
          LET call == cb_log[i] IN
          /\ call.op # "get_balance" /\ call.result \in GuardError
                => CbAfter(i) = call.before
          /\ call.op = "deposit" /\ ~FitsUsize(BigAdd(call.before.balance, call.arg))
                => call.result \in GuardError
          /\ call.op = "withdraw" /\ BigLess(call.before.balance, call.arg)
                => call.result \in GuardError
          /\ call.op = "deposit" /\ call.result = "Ok"
                => CbAfter(i).balance = BigAdd(call.before.balance, call.arg)
          /\ call.op = "withdraw" /\ call.result = "Ok"
                => BigAdd(CbAfter(i).balance, call.arg) = call.before.balance
    /\ cb_state # <<>> => FitsUsize(cb_state.balance)

\* u64::MAX was deposited, a further deposit of 1 was refused, and so was a
\* withdraw after the balance had gone: the balance is still u64::MAX.
C29_Witness ==
    /\ Len(cb_log) = 2
    /\ cb_log[1].op = "deposit" /\ cb_log[1].arg = U64Max /\ cb_log[1].result = "Ok"
    /\ cb_log[2].op = "deposit" /\ cb_log[2].arg = Big(1)
    /\ cb_log[2].result = "Unauthorized"
    /\ cb_state.balance = U64Max

---------------------------------------------------------------------------
(* contracts/reentrancy-guard lib.rs *)

\* GuardStatus as u32
GuardStatusAsU32(status) == IF status = "Unlocked" THEN 0 ELSE 1

\* GuardStatus::from_u32
from_u32(val) == IF val = 0 THEN "Unlocked" ELSE "Locked"

\* enter_pure that lets every caller in
enter_pure_always(current_status) == [ok |-> TRUE, status |-> "Locked"]

\* enter_pure
enter_pure(current_status) ==
    IF current_status = "Locked" THEN [ok |-> FALSE, msg |-> "reentrancy detected"]
    ELSE [ok |-> TRUE, status |-> "Locked"]

\* exit_pure
exit_pure == "Unlocked"

\* self.env.storage().instance().get(&GUARD_KEY).unwrap_or(0)
GuardStored(storage) == IF storage = None THEN 0 ELSE storage[1]

\* The number of enter and exit calls made in one run.
GdMaxCalls == 8

\* ReentrancyGuard::enter: the status is read and, if the guard is free,
\* Locked is stored; otherwise the call panics with the message.
GuardEnter ==
    /\ gd_pc = "ready"
    /\ Len(gd_log) < GdMaxCalls
    /\ LET current == from_u32(GuardStored(gd_storage))
           result == enter_pure(current)
       IN IF result.ok
          THEN /\ gd_storage' = Some(GuardStatusAsU32(result.status))
               /\ gd_log' = Append(gd_log, [op |-> "enter", found |-> current,
                                            outcome |-> "returned"])
               /\ UNCHANGED gd_pc
          ELSE /\ gd_pc' = "panicked"
               /\ gd_log' = Append(gd_log, [op |-> "enter", found |-> current,
                                            outcome |-> result.msg])
               /\ UNCHANGED gd_storage
    /\ UNCHANGED notGd

\* ReentrancyGuard::exit
GuardExit ==
    /\ gd_pc = "ready"
    /\ Len(gd_log) < GdMaxCalls
    /\ gd_storage' = Some(GuardStatusAsU32(exit_pure))
    /\ gd_log' = Append(gd_log, [op |-> "exit",
                                 found |-> from_u32(GuardStored(gd_storage)),
                                 outcome |-> "returned"])
    /\ UNCHANGED gd_pc
    /\ UNCHANGED notGd

\* A fresh Env: nothing is stored under GUARD_KEY.
InitGuard ==
    /\ gd_pc = "ready"
    /\ gd_storage = None
    /\ gd_log = <<>>
    /\ ReIdle /\ SuIdle /\ RgIdle /\ SmIdle /\ AnIdle /\ VdIdle /\ GsIdle /\ CbIdle /\ TkIdle /\ RwIdle

NextGuard ==
    \/ GuardEnter
    \/ GuardExit

SpecGuard == InitGuard /\ [][NextGuard]_vars

\* The guard as the calls up to and including call i leave it: Locked after
\* an enter that returned, Unlocked after an exit, as before after a panic.
RECURSIVE GuardAfter(_)
GuardAfter(i) ==
    IF i = 0 THEN "Unlocked"
    ELSE IF gd_log[i].op = "exit" THEN "Unlocked"
    ELSE IF gd_log[i].outcome = "returned" THEN "Locked"
    ELSE GuardAfter(i - 1)

\* C26: enter succeeds only when the guard is Unlocked and then sets it
\* Locked; an enter while the guard is Locked fails with "reentrancy
\* detected"; exit always sets the guard Unlocked, so sequential enter/exit
\* pairs all succeed, and between an enter and the exit that follows it no
\* second enter succeeds.
C26_GuardAdmitsOneAtATime ==
    /\ \A i \in 1..Len(gd_log) :
          LET call == gd_log[i] IN
          /\ call.found = GuardAfter(i - 1)
          /\ call.op = "enter" =>
                /\ call.outcome = "returned" <=> call.found = "Unlocked"
                /\ call.outcome # "returned" => call.outcome = "reentrancy detected"
          /\ call.op = "enter" /\ (i = 1 \/ gd_log[i - 1].op = "exit")
                => call.outcome = "returned"
    /\ \A i, j \in 1..Len(gd_log) :
          /\ i < j
          /\ gd_log[i].op = "enter" /\ gd_log[i].outcome = "returned"
          /\ gd_log[j].op = "enter" /\ gd_log[j].outcome = "returned"
          => \E k \in (i + 1)..(j - 1) : gd_log[k].op = "exit"
    /\ gd_log # <<>> =>
          from_u32(GuardStored(gd_storage)) = GuardAfter(Len(gd_log))

\* Two enter/exit pairs went through, then a third enter, and the enter
\* nested in it panicked.
C26_Witness ==
    /\ Len(gd_log) = 6
    /\ \A i \in {1, 3, 5} : gd_log[i].op = "enter" /\ gd_log[i].outcome = "returned"
    /\ \A i \in {2, 4} : gd_log[i].op = "exit"
    /\ gd_log[6].op = "enter" /\ gd_log[6].outcome = "reentrancy detected"
    /\ gd_pc = "panicked"
    /\ gd_storage = Some(1)

---------------------------------------------------------------------------
(* contracts/kani-poc lib.rs *)

\* i128.  A value is a sign and a magnitude, the magnitude kept as bytes.
Int128(neg, mag) == [neg |-> neg /\ mag # <<>>, mag |-> mag]
I128Max == Int128(FALSE, [i \in 1..16 |-> IF i = 16 THEN 127 ELSE 255])
I128Min == Int128(TRUE, [i \in 1..16 |-> IF i = 16 THEN 128 ELSE 0])
I128(n) == IF n < 0 THEN Int128(TRUE, Big(0 - n)) ELSE Int128(FALSE, Big(n))

FitsI128(x) == IF x.neg THEN ~BigLess(I128Min.mag, x.mag) ELSE ~BigLess(I128Max.mag, x.mag)

\* The exact sum and the exact negation of two signed values.
SignedNeg(x) == Int128(~x.neg, x.mag)
SignedAdd(x, y) ==
    IF x.neg = y.neg THEN Int128(x.neg, BigAdd(x.mag, y.mag))
    ELSE IF BigLess(x.mag, y.mag) THEN Int128(y.neg, BigSub(y.mag, x.mag))
    ELSE Int128(x.neg, BigSub(x.mag, y.mag))

\* i128::checked_add, i128::checked_sub
i128_checked_add(x, y) ==
    IF FitsI128(SignedAdd(x, y)) THEN Some(SignedAdd(x, y)) ELSE None
i128_checked_sub(x, y) ==
    IF FitsI128(SignedAdd(x, SignedNeg(y))) THEN Some(SignedAdd(x, SignedNeg(y))) ELSE None

\* amount <= 0
NotPositive(x) == x.neg \/ x.mag = <<>>

\* initialize_pure without its guard
initialize_pure_unguarded(is_initialized) == [ok |-> TRUE]

\* initialize_pure
initialize_pure(is_initialized) ==
    IF is_initialized THEN [ok |-> FALSE, msg |-> "already initialized"]
    ELSE [ok |-> TRUE]

\* transfer_pure
transfer_pure(balance_from, balance_to, amount) ==
    IF NotPositive(amount) THEN [ok |-> FALSE, msg |-> "Amount must be positive"]
    ELSE LET new_from == i128_checked_sub(balance_from, amount)
             new_to == i128_checked_add(balance_to, amount)
         IN IF new_from = None THEN [ok |-> FALSE, msg |-> "Insufficient balance"]
            ELSE IF new_to = None THEN [ok |-> FALSE, msg |-> "Receiver balance overflow"]
            ELSE [ok |-> TRUE, value |-> <<new_from[1], new_to[1]>>]

\* Result::expect: the value, or a panic carrying the message and the error
Expect(result, message) ==
    IF result.ok THEN "returned" ELSE <<"panic", message, result.msg>>

\* The number of calls made on one contract.
TkMaxCalls == 4

TkSymbols == {"token", "admin2"}

TkBalances == {I128(0), I128(5), I128Min, I128Max}

TkAmounts == {I128(-1), I128(0), I128(1), I128(5)}

\* A call is logged.
TkLogged(op, outcome) == tk_log' = Append(tk_log, [op |-> op, outcome |-> outcome])

\* TokenContract::transfer: no storage is read or written.
TokenTransfer ==
    /\ tk_pc = "ready"
    /\ Len(tk_log) < TkMaxCalls
    /\ \E balance_from \in TkBalances, balance_to \in TkBalances, amount \in TkAmounts :
          TkLogged("transfer",
                   Expect(transfer_pure(balance_from, balance_to, amount), "transfer failed"))
    /\ UNCHANGED <<tk_pc, tk_storage>>
    /\ UNCHANGED notTk

\* TokenContract::initialize: the flag is read (absent = false); the call
\* panics if it is set, and sets it otherwise.
TokenInitialize ==
    /\ tk_pc = "ready"
    /\ Len(tk_log) < TkMaxCalls
    /\ \E name \in TkSymbols :
          LET already == IF tk_storage.init = None THEN FALSE ELSE tk_storage.init[1]
              outcome == Expect(initialize_pure(already), "already initialized")
          IN /\ TkLogged("initialize", outcome)
             /\ tk_storage' = IF outcome = "returned"
                              THEN [tk_storage EXCEPT !.init = Some(TRUE)]
                              ELSE tk_storage
    /\ UNCHANGED tk_pc
    /\ UNCHANGED notTk

\* TokenContract::set_admin
TokenSetAdmin ==
    /\ tk_pc = "ready"
    /\ Len(tk_log) < TkMaxCalls
    /\ \E new_admin \in TkSymbols :
          /\ tk_storage' = [tk_storage EXCEPT !.admin = Some(new_admin)]
          /\ TkLogged("set_admin", "returned")
    /\ UNCHANGED tk_pc
    /\ UNCHANGED notTk

\* A freshly registered contract: instance storage is empty.
InitToken ==
    /\ tk_pc = "ready"
    /\ tk_storage = [init |-> None, admin |-> None]
    /\ tk_log = <<>>
    /\ ReIdle /\ SuIdle /\ RgIdle /\ SmIdle /\ AnIdle /\ VdIdle /\ GsIdle /\ CbIdle /\ GdIdle /\ RwIdle

NextToken ==
    \/ TokenTransfer
    \/ TokenInitialize
    \/ TokenSetAdmin

SpecToken == InitToken /\ [][NextToken]_vars

\* The initialize calls among the calls made, by their place in the log.
InitializeCalls == {i \in 1..Len(tk_log) : tk_log[i].op = "initialize"}

\* C27: over any sequence of calls initialize succeeds exactly once: the
\* first initialize call succeeds and sets the init flag, every later one
\* fails with "already initialized", and neither transfer nor set_admin
\* ever clears the flag.
C27_InitializeSucceedsOnce ==
    /\ \A i \in InitializeCalls :
          IF \A j \in InitializeCalls : i <= j
          THEN tk_log[i].outcome = "returned"
          ELSE /\ tk_log[i].outcome # "returned"
               /\ tk_log[i].outcome[3] = "already initialized"
    /\ Cardinality({i \in InitializeCalls : tk_log[i].outcome = "returned"}) <= 1
    /\ tk_storage # <<>> =>
          (tk_storage.init = Some(TRUE) <=> InitializeCalls # {})

\* initialize went through, then set_admin and a panicking transfer, and a
\* second initialize was refused with the flag still set.
C27_Witness ==
    /\ Len(tk_log) = 4
    /\ tk_log[1] = [op |-> "initialize", outcome |-> "returned"]
    /\ tk_log[2].op = "set_admin"
    /\ tk_log[3].op = "transfer" /\ tk_log[3].outcome # "returned"
    /\ tk_log[4].op = "initialize" /\ tk_log[4].outcome # "returned"
    /\ tk_storage.init = Some(TRUE)
    /\ tk_storage.admin # None

---------------------------------------------------------------------------
(* scan_reentrancy and the order in which calls execute *)

\* C28: when a cross-contract call stands inside the receiver or the
\* argument list of a set/update/remove call, and so runs before that
\* mutation, the function is reported exactly as when the cross-contract
\* call is a statement that precedes the mutation.
C28_NestedCrossCallJudgedInExecutionOrder ==
    \A p \in ReNestedPairs :
        re_pc = "done" /\ re_source = ReSingleFn(p[1]) =>
            /\ re_result = scan_reentrancy(ReSingleFn(p[2]))
            /\ \E i \in DOMAIN re_result : re_result[i].function_name = "f"

---------------------------------------------------------------------------
(* contracts/runtime-guard-wrapper lib.rs *)

\* Storage before init: no entry is set.
RwEmptyStorage ==
    [wrapped_contract_addr |-> None, guard_config |-> None, call_log |-> None,
     invariants_checked |-> None, guard_failures |-> None, exec_metrics |-> None]

\* A guard's outcome: the storage it leaves, and Ok or the contract error.
RwOk(storage) == [storage |-> storage, ok |-> TRUE, error |-> 0]
RwErr(storage, code) == [storage |-> storage, ok |-> FALSE, error |-> code]

\* RuntimeGuardWrapper::init
wrapper_init(storage, wrapped_contract) ==
    [wrapped_contract_addr |-> Some(wrapped_contract),
     guard_config |-> Some(<<TRUE, TRUE, TRUE, TRUE>>),
     call_log |-> Some(<<>>),
     invariants_checked |-> Some(0),
     guard_failures |-> Some(<<>>),
     exec_metrics |-> Some(<<>>)]

\* validate_storage_integrity
validate_storage_integrity(storage) ==
    IF storage.wrapped_contract_addr = None THEN RwErr(storage, 2) ELSE RwOk(storage)

\* pre_execution_guards
pre_execution_guards(storage) ==
    IF storage.wrapped_contract_addr = None THEN RwErr(storage, 1)
    ELSE validate_storage_integrity(storage)

\* verify_storage_invariants
verify_storage_invariants(storage) ==
    LET checked_count == IF storage.invariants_checked = None THEN 0
                         ELSE storage.invariants_checked[1]
    IN RwOk([storage EXCEPT !.invariants_checked = Some(checked_count + 1)])

\* post_execution_guards
post_execution_guards(storage) == verify_storage_invariants(storage)

\* iter().skip(n).collect()
SkipCollect(vec, n) == SubSeq(vec, n + 1, Len(vec))

\* record_metrics that stores the list as it has grown
record_metrics_untruncated(storage, metrics) ==
    [storage EXCEPT !.exec_metrics =
        Some(Append(IF storage.exec_metrics = None THEN <<>> ELSE storage.exec_metrics[1],
                    metrics))]

\* record_metrics
record_metrics(storage, metrics) ==
    LET metrics_vec == Append(IF storage.exec_metrics = None THEN <<>>
                              ELSE storage.exec_metrics[1], metrics)
    IN IF Len(metrics_vec) > 1000
       THEN [storage EXCEPT !.exec_metrics =
                Some(SkipCollect(metrics_vec, Len(metrics_vec) - 1000))]
       ELSE [storage EXCEPT !.exec_metrics = Some(metrics_vec)]

\* The call hash is a function of the name and the ledger timestamp; it is
\* kept as the pair it is computed from.
CallHash(function_name, start_tick) == <<function_name, start_tick>>

\* execute_with_monitoring: the simulated call always succeeds.
execute_with_monitoring(storage, function_name, start_tick) ==
    RwOk(record_metrics(storage,
            <<CallHash(function_name, start_tick), TRUE, start_tick, 0>>))

\* log_execution
log_execution(storage, function_name) ==
    LET log == Append(IF storage.call_log = None THEN <<>> ELSE storage.call_log[1],
                      function_name)
    IN IF Len(log) > 100
       THEN [storage EXCEPT !.call_log = Some(SkipCollect(log, 1))]
       ELSE [storage EXCEPT !.call_log = Some(log)]

\* execute_guarded: a call that returns Err leaves the storage as it found
\* it (the host discards the writes of a failed invocation).
execute_guarded(storage, function_name, start_tick) ==
    LET pre == pre_execution_guards(storage) IN
    IF ~pre.ok THEN RwErr(storage, pre.error)
    ELSE LET run == execute_with_monitoring(pre.storage, function_name, start_tick)
             post == post_execution_guards(run.storage)
         IN RwOk(log_execution(post.storage, function_name))

\* The number of calls made in one run.
RwMaxCalls == 3

RwFunctionNames == {"transfer", "mint"}

RwTicks == {10, 11}

\* The name and the timestamp of the n-th call of a long run.
RwNthCall(n) == [function_name |-> IF n % 3 = 0 THEN "mint" ELSE "transfer",
                 start_tick |-> 10 + (n % 2)]

\* The lengths of the opening runs: none, one that leaves the call log one
\* short of full, one that fills the metrics list.
RwRunsBefore == {0, 99, 1000}

\* A call is made: in the opening run it is the next call of the run, and
\* the run ends with its last call; afterwards calls are free and counted.
RwCalled(executed) ==
    /\ rw_pc \in {"run", "ready"}
    /\ rw_pc = "ready" => rw_made < RwMaxCalls
    /\ rw_made' = IF rw_pc = "ready" THEN rw_made + 1 ELSE rw_made
    /\ rw_pc' = IF Len(executed) >= rw_planned THEN "ready" ELSE rw_pc
    /\ rw_executed' = executed
    /\ UNCHANGED rw_planned
    /\ UNCHANGED notRw

\* One init call; the opening run begins with one.
WrapperInit ==
    /\ rw_pc = "run" => rw_storage = RwEmptyStorage
    /\ rw_storage' = wrapper_init(rw_storage, "wrapped")
    /\ rw_last' = <<"init">>
    /\ RwCalled(<<>>)

\* One execute_guarded call.
WrapperExecuteGuarded ==
    \E function_name \in RwFunctionNames, start_tick \in RwTicks :
        LET call == [function_name |-> function_name, start_tick |-> start_tick]
            done == execute_guarded(rw_storage, function_name, start_tick)
        IN /\ rw_pc = "run" =>
                 /\ rw_storage # RwEmptyStorage
                 /\ call = RwNthCall(Len(rw_executed) + 1)
           /\ rw_storage' = done.storage
           /\ rw_last' = <<"execute_guarded", done.ok, done.error>>
           /\ RwCalled(IF done.ok THEN Append(rw_executed, call) ELSE rw_executed)

\* A contract just deployed.
InitWrapper ==
    /\ \/ rw_pc = "ready" /\ rw_planned = 0
       \/ rw_pc = "run" /\ rw_planned \in RwRunsBefore
    /\ rw_storage = RwEmptyStorage
    /\ rw_executed = <<>>
    /\ rw_made = 0
    /\ rw_last = <<>>
    /\ ReIdle /\ SuIdle /\ RgIdle /\ SmIdle /\ AnIdle /\ VdIdle /\ GsIdle /\ CbIdle /\ GdIdle /\ TkIdle

NextWrapper ==
    \/ WrapperInit
    \/ WrapperExecuteGuarded

SpecWrapper == InitWrapper /\ [][NextWrapper]_vars

\* The last n elements of a sequence (all of it if it has fewer).
MostRecent(calls, n) ==
    IF Len(calls) <= n THEN calls ELSE [i \in 1..n |-> calls[Len(calls) - n + i]]

\* C30: after any sequence of init and execute_guarded calls the stored call
\* log holds at most 100 entries and the stored metrics list at most 1000;
\* once full, each new call drops the oldest entry, so that each list holds
\* the most recent calls (since the last init) in call order.
C30_LogAndMetricsBounded ==
    rw_storage # <<>> =>
        /\ rw_storage.call_log # None =>
              /\ Len(rw_storage.call_log[1]) <= 100
              /\ rw_storage.call_log[1] =
                    [i \in 1..Len(MostRecent(rw_executed, 100)) |->
                        MostRecent(rw_executed, 100)[i].function_name]
        /\ rw_storage.exec_metrics # None =>
              /\ Len(rw_storage.exec_metrics[1]) <= 1000
              /\ [i \in 1..Len(rw_storage.exec_metrics[1]) |->
                     rw_storage.exec_metrics[1][i][1]] =
                 [i \in 1..Len(MostRecent(rw_executed, 1000)) |->
                     <<MostRecent(rw_executed, 1000)[i].function_name,
                       MostRecent(rw_executed, 1000)[i].start_tick>>]
        /\ rw_storage.call_log = None => rw_executed = <<>>

\* More than 1000 calls were executed since init: the log holds 100 names
\* and the metrics list 1000 entries, the last of each being the last call.
C30_Witness ==
    /\ Len(rw_executed) = 1002
    /\ rw_last = <<"execute_guarded", TRUE, 0>>
    /\ Len(rw_storage.call_log[1]) = 100
    /\ Len(rw_storage.exec_metrics[1]) = 1000
    /\ rw_storage.call_log[1][100] = rw_executed[1002].function_name
    /\ rw_storage.call_log[1][1] = rw_executed[903].function_name
    /\ rw_storage.exec_metrics[1][1][1] =
          <<rw_executed[3].function_name, rw_executed[3].start_tick>>

=============================================================================
